---- MODULE Spec2Model ----
(***************************************************************************)
(* Veltix: request/response correlation over a framed TCP connection.      *)
(* The module models the Client (veltix/client/client.py) and the Server   *)
(* (veltix/server/server.py): the pending-request table, send_and_wait,    *)
(* the receive loop handle_client, the accept loop and close_client,       *)
(* together with the correlation-id conversion of Request.compile and      *)
(* Request.parse (veltix/network/request.py).                              *)
(*                                                                         *)
(* One behaviour models one endpoint: `side` says whether it is a Client   *)
(* (one connection, number 1) or a Server (connections numbered by the     *)
(* thread_id the accept loop gives them).  The remote end of every         *)
(* connection is the environment.                                          *)
(***************************************************************************)
EXTENDS Integers, Sequences, FiniteSets, TLC

\* ------------------------------------------------------------------ bounds
NumCallers == 2         \* threads that call send_and_wait
MaxPeerFrames == 2      \* frames the remote ends send in one behaviour
NumClosers == 1         \* user threads that call close_client / disconnect
NumRegistrants == 2     \* threads that create a MessageType
MaxPayload == 2         \* bytes of content in a Request handed to compile
MaxDisconnects == 2     \* calls of Client.disconnect by user threads
MaxExtra == 2           \* bytes appended to a compiled frame
MaxSends == 2           \* calls of Sender.send by user threads
MaxTargets == 2         \* sockets in the list handed to Sender.broadcast
PingTimeout == 3        \* the timeout of a ping call, in milliseconds
MaxTicks == 5           \* milliseconds that pass in one behaviour
MaxSkew == 4            \* how far the remote end's clock is ahead or behind
ClockStart == 10        \* the reading of the clock when a behaviour begins
ByteVals == {0, 1, 255} \* values of a byte of content
Clock == {1, 70000}     \* readings of time.time() * 1000 at compile
ClockStep == 5          \* milliseconds between compile and parse
RegCodes == {-1, 0, 1, 300, 65535, 65536}  \* codes handed to MessageType(code, name)
RegNames == <<"alpha", "beta", "gamma", "delta">>  \* names handed to MessageType
UnregisteredCodes == {3, 255, 65534}  \* type codes written over a frame's code
TruncatedLengths == {0, 61}           \* lengths of a frame cut short

\* ------------------------------------------------------- program constants
PING == 0               \* system_types.PING.code
PONG == 1               \* system_types.PONG.code
USER == 200             \* a user-registered MessageType code
HEARTBEAT == 2
HELLO == 10
ERROR == 20
INVALID_REQUEST == 21
MaxCode == 65535        \* MessageType.__init__: 0 <= code <= 65535
HeaderSize == 62        \* Request.parse: the header of ">HI32sQ16s"
max_connection == 2     \* ServerConfig.max_connection

Callers == 1..NumCallers
Closers == 1..NumClosers
Registrants == 1..NumRegistrants
\* The connection attempts a behaviour sees: one more than the server admits.
NumConns == max_connection + 1
Conns == 1..NumConns
None == [none |-> TRUE]

\* ------------------------------------------------- correlation-id strings
\* A string is a tuple of one-character strings.
HexChars == <<"0","1","2","3","4","5","6","7","8","9","a","b","c","d","e","f">>
UpperHexChars == <<"0","1","2","3","4","5","6","7","8","9","A","B","C","D","E","F">>

IsHexChar(ch) == \E i \in 1..16 : HexChars[i] = ch \/ UpperHexChars[i] = ch

\* int(ch, 16)
HexVal(ch) == CHOOSE v \in 0..15 : HexChars[v + 1] = ch \/ UpperHexChars[v + 1] = ch

\* str.replace("-", "")
StripHyphens(s) == SelectSeq(s, LAMBDA ch : ch # "-")

\* bytes.fromhex(clean_id): two hex digits per byte
FromHex(h) == [i \in 1..(Len(h) \div 2) |-> 16 * HexVal(h[2 * i - 1]) + HexVal(h[2 * i])]

\* bytes.hex(): two lowercase hex digits per byte
ToHex(b) == [i \in 1..(2 * Len(b)) |->
               IF i % 2 = 1 THEN HexChars[(b[(i + 1) \div 2] \div 16) + 1]
                            ELSE HexChars[(b[i \div 2] % 16) + 1]]

\* hashlib.md5(request_id.encode()).digest(), tabulated for the strings the
\* model supplies (the digests are those MD5 gives).
ReqOne == <<"r","e","q","-","1">>
Md5(s) ==
  CASE s = ReqOne -> <<210, 47, 249, 185, 65, 62, 10, 174, 249, 213, 121, 19, 87, 141, 153, 160>>

\* Request.compile, lines 190-201: request_id -> 16 bytes
CompileId(request_id) ==
  LET clean_id == StripHyphens(request_id)
  IN  IF Len(clean_id) = 32 /\ \A i \in 1..32 : IsHexChar(clean_id[i])
      THEN FromHex(clean_id)
      ELSE Md5(request_id)

\* Request.parse, lines 121-126: 16 bytes -> hyphenated lowercase hex
ParseId(request_id_bytes) ==
  LET request_id_hex == ToHex(request_id_bytes)
  IN  SubSeq(request_id_hex, 1, 8) \o <<"-">> \o SubSeq(request_id_hex, 9, 12) \o <<"-">>
        \o SubSeq(request_id_hex, 13, 16) \o <<"-">> \o SubSeq(request_id_hex, 17, 20)
        \o <<"-">> \o SubSeq(request_id_hex, 21, 32)

\* The correlation ids callers supply: two ids in the form uuid4 gives
\* (IdA, IdB), and IdA written in upper case without hyphens.
HexA == [i \in 1..32 |-> IF i = 32 THEN "1" ELSE "a"]
HexB == [i \in 1..32 |-> IF i = 32 THEN "2" ELSE "a"]
IdA == ParseId(FromHex(HexA))
IdB == ParseId(FromHex(HexB))
IdAUpper == [i \in 1..32 |-> IF i = 32 THEN "1" ELSE "A"]
\* Callers are interchangeable: the first one draws its id from IdA and
\* IdAUpper, the others from IdA and IdB, which gives every pair of equal
\* ids, of distinct generated ids, and of a generated and a supplied id.
CallerIds(c) == IF c = 1 THEN {IdA, IdAUpper} ELSE {IdA, IdB}
\* The id the remote ends put on the wire in frames nobody asked for.
WireIds == {CompileId(IdA)}

\* ------------------------------------------------------------------- state
VARIABLES
  side,              \* "client" or "server": the endpoint this behaviour runs
  pending_requests,  \* _pending_requests: request_id -> the caller whose Queue it holds
  queue,             \* the Queue(maxsize=1) each send_and_wait call created
  pc,                \* where each send_and_wait call stands
  req,               \* the Request each call was given
  target,            \* the connection each call sends on (Server: client.conn)
  result,            \* what each call returned
  to_peer,           \* per connection, frames written and not yet answered by the remote end
  from_peer,         \* per connection, frames the remote end wrote, not yet read
  sock,              \* per connection, the local socket: "none", "new", "open", "closed"
  peer_open,         \* per connection, whether the remote end is still open
  hpc,               \* per connection, where its handle_client thread stands
  hmsg,              \* per connection, the Response the handler is dispatching
  hq,                \* per connection, the caller whose Queue the handler looked up
  callbacks,         \* the callbacks that are set, among on_recv, on_connect, on_disconnect
  running,           \* Client.running / Server.running
  is_connected,      \* Client.is_connected
  clients,           \* Server.clients, each ClientInfo named by its thread_id
  threads,           \* Server.threads, the thread_ids registered
  n_th,              \* Server.n_th
  apc,               \* where the accept loop of Server.start stands
  aconn,             \* the connection the accept loop is adding
  attempts,          \* how many remote clients connect to the server in this behaviour
  cpc,               \* per context, where its close_client / disconnect call stands
  ctarget,           \* per context, the ClientInfo close_client was called with
  cwas_in,           \* per context, whether that peer was in clients when the call began
  cres,              \* per context, what the last close_client / disconnect call returned
                     \* (read once cpc is "done"; FALSE while no call has returned)
  recv_log,          \* the Responses passed to on_recv, in order
  conn_log,          \* the peers passed to on_connect, in order
  disc_log,          \* the peers passed to on_disconnect, in order
  sent_frames,       \* every frame the remote ends wrote; a frame's serial is its index
  fate,              \* per serial, what the handler did with the frame
  late,              \* serials read by a handler after their waiter's timeout had expired
  raising,           \* the callbacks that raise an exception when called
  dcalls,            \* how many times user threads have called Client.disconnect
  spc,               \* where the close_all call stands
  to_close,          \* clients_to_close of close_all, the part not yet closed
  listening,         \* whether the listening socket of the server is open
  registry,          \* MessageTypeRegistry._registry: code -> MessageType
  rpc,               \* per registrant, where its MessageType(code, name) call stands
  rtype,             \* per registrant, the MessageType it creates (code, name)
  rres,              \* per registrant, how its call ended
  creq,              \* the Request handed to compile
  cts,               \* int(time.time() * 1000) as compile reads it
  cdata,             \* the bytes handed to parse
  cout,              \* what parse gave: a Response or the error it raised
  tamper,            \* what was done to the compiled bytes before parse
  slog,              \* the Sender.send calls of user threads: target, what happened, result
  bpc,               \* where the Sender.broadcast call stands
  bdata,             \* broadcast: data
  blist,             \* broadcast: list_of_client
  bexcept,           \* broadcast: except_set
  bi,                \* broadcast: the index the loop of line 128 is at
  bresults,          \* broadcast: results
  bret,              \* what broadcast returned
  blog,              \* the sends broadcast made: target, what happened, result
  clock,             \* the clock of this endpoint, in milliseconds
  skew,              \* the remote end's clock minus this endpoint's clock
  ppc,               \* where the ping_server / ping_client call stands
  pout,              \* the probe on its way to the remote end, in bytes
  pin,               \* the probe reply on its way back, in bytes
  presp,             \* the Response in the Queue of the ping call
  pres,              \* what the ping call returned
  pt0,               \* the clock when the ping call sent the probe
  pt1,               \* the clock when the handler received the reply
  conn_timeout,      \* whether the connection sockets have a timeout set
  connect_result,    \* what Client.connect returned
  start_th,          \* whether start() has created the accept thread (self.start_th)
  wire,              \* the bytes written to a connection and not yet read
  wlog,              \* history: the frames written to it, in order
  rlog,              \* history: what each conn.recv returned and whether it was dispatched
  on_thread          \* the handler thread a send_and_wait call runs on, 0: a thread of its own

vars == <<side, pending_requests, queue, pc, req, target, result, to_peer, from_peer, sock,
          peer_open, hpc, hmsg, hq, callbacks, running, is_connected, clients, threads,
          n_th, apc, aconn, attempts, cpc, ctarget, cwas_in, cres, recv_log, conn_log, disc_log,
          sent_frames, fate, late, raising, dcalls, spc, to_close, listening, registry,
          rpc, rtype, rres, creq, cts, cdata, cout, tamper, slog, bpc, bdata, blist,
          bexcept, bi, bresults, bret, blog, clock, skew, ppc, pout, pin, presp, pres,
          pt0, pt1, conn_timeout, connect_result, start_th, wire, wlog,
          rlog, on_thread>>

callerVars == <<pending_requests, queue, pc, req, target, result>>
netVars == <<to_peer, from_peer, sock, peer_open>>
handlerVars == <<hpc, hmsg, hq>>
clientVars == <<running, is_connected>>
acceptVars == <<clients, threads, n_th, apc, aconn, attempts>>
closeVars == <<cpc, ctarget, cwas_in, cres>>
logVars == <<recv_log, conn_log, disc_log>>
frameVars == <<sent_frames, fate, late>>
shutVars == <<spc, to_close, listening>>
regVars == <<registry, rpc, rtype, rres>>
codecVars == <<creq, cts, cdata, cout, tamper>>
sndVars == <<slog, bpc, bdata, blist, bexcept, bi, bresults, bret, blog>>
pingVars == <<clock, skew, ppc, pout, pin, presp, pres, pt0, pt1>>
toVars == <<conn_timeout>>
laterVars == <<sndVars, pingVars, toVars, connect_result>>
streamVars == <<wire, wlog, rlog>>
lastVars == <<start_th, streamVars, on_thread>>
extVars == <<raising, dcalls, shutVars, regVars, codecVars, laterVars, lastVars>>

\* A close_client / disconnect call runs in a context: a user thread (a closer)
\* or the handler thread of a connection.
HandlerCtx(p) == NumClosers + p
Ctxs == 1..(NumClosers + NumConns)

\* dict helpers
SetKey(d, k, v) == [x \in DOMAIN d \cup {k} |-> IF x = k THEN v ELSE d[x]]
DelKey(d, k) == [x \in DOMAIN d \ {k} |-> d[x]]
\* list.remove
Remove(l, x) == SelectSeq(l, LAMBDA y : y # x)
InList(l, x) == \E i \in 1..Len(l) : l[i] = x

\* ------------------------------------------------------------ wire frames
\* Request(_type, content, request_id), request.py lines 56-59
Request(t, content, request_id) ==
  [type |-> t, content |-> content, request_id |-> request_id]

\* The request of caller c: a user message with the one-byte payload c.
CallerRequest(c, request_id) == Request(USER, <<c>>, request_id)

\* Request.compile, lines 164-218: the frame of a request.  `ok` stands for
\* a header whose digest, length and type code parse accepts; `re` and
\* `serial` are history: the call a frame comes from or answers (0: none) and,
\* for a frame of the remote end, its index in sent_frames.
Compile(request, re) ==
  [code |-> request.type, content |-> request.content,
   request_id_bytes |-> CompileId(request.request_id), ok |-> TRUE, re |-> re, serial |-> 0]

\* Request.parse, lines 112-162: the Response of a frame parse accepts.
Parse(frame) ==
  [type |-> frame.code, content |-> frame.content,
   request_id |-> ParseId(frame.request_id_bytes), re |-> frame.re, serial |-> frame.serial]

\* ---------------------------------------------------- the frame in bytes
\* struct.pack(">H"...), (">I"...), (">Q"...): n in w bytes, big-endian
RECURSIVE BigEndian(_, _)
BigEndian(n, w) == IF w = 0 THEN <<>> ELSE BigEndian(n \div 256, w - 1) \o <<n % 256>>

\* struct.unpack of an unsigned big-endian field
RECURSIVE FromBigEndian(_)
FromBigEndian(b) ==
  IF Len(b) = 0 THEN 0
  ELSE 256 * FromBigEndian(SubSeq(b, 1, Len(b) - 1)) + b[Len(b)]

\* hashlib.sha256(content).digest(), tabulated for the contents the model
\* builds (the digests are those SHA-256 gives).
Sha256(c) ==
  CASE c = <<>> ->
      <<227, 176, 196, 66, 152, 252, 28, 20, 154, 251, 244, 200, 153, 111, 185, 36, 39, 174, 65, 228, 100, 155, 147, 76, 164, 149, 153, 27, 120, 82, 184, 85>>
    [] c = <<0>> ->
      <<110, 52, 11, 156, 255, 179, 122, 152, 156, 165, 68, 230, 187, 120, 10, 44, 120, 144, 29, 63, 179, 55, 56, 118, 133, 17, 163, 6, 23, 175, 160, 29>>
    [] c = <<1>> ->
      <<75, 245, 18, 47, 52, 69, 84, 197, 59, 222, 46, 187, 140, 210, 183, 227, 209, 96, 10, 214, 49, 195, 133, 165, 215, 204, 226, 60, 119, 133, 69, 154>>
    [] c = <<255>> ->
      <<168, 16, 10, 230, 170, 25, 64, 208, 182, 99, 187, 49, 205, 70, 97, 66, 235, 189, 189, 81, 135, 19, 27, 146, 217, 56, 24, 152, 120, 50, 235, 137>>
    [] c = <<0, 0>> ->
      <<150, 162, 150, 210, 36, 242, 133, 198, 123, 238, 147, 195, 15, 138, 48, 145, 87, 240, 218, 163, 93, 197, 184, 126, 65, 11, 120, 99, 10, 9, 207, 199>>
    [] c = <<0, 1>> ->
      <<180, 19, 244, 125, 19, 238, 47, 230, 200, 69, 178, 238, 20, 26, 248, 29, 232, 88, 223, 78, 197, 73, 165, 139, 121, 112, 187, 150, 100, 91, 200, 210>>
    [] c = <<0, 255>> ->
      <<6, 235, 125, 106, 105, 238, 25, 229, 251, 223, 116, 144, 24, 211, 210, 171, 250, 4, 188, 189, 19, 101, 219, 49, 46, 184, 109, 199, 22, 147, 137, 184>>
    [] c = <<1, 0>> ->
      <<71, 220, 84, 12, 148, 206, 183, 4, 162, 56, 117, 193, 18, 115, 225, 107, 176, 184, 168, 122, 237, 132, 222, 145, 31, 33, 51, 86, 129, 21, 242, 84>>
    [] c = <<1, 1>> ->
      <<157, 207, 151, 161, 132, 243, 38, 35, 209, 26, 115, 18, 76, 235, 153, 165, 112, 155, 8, 55, 33, 232, 120, 161, 109, 120, 245, 150, 113, 139, 167, 178>>
    [] c = <<1, 255>> ->
      <<75, 58, 67, 245, 146, 245, 119, 252, 252, 181, 176, 225, 244, 43, 236, 81, 130, 201, 237, 196, 20, 225, 246, 103, 82, 143, 86, 231, 207, 11, 225, 29>>
    [] c = <<255, 0>> ->
      <<234, 93, 191, 149, 150, 209, 135, 233, 80, 15, 35, 233, 166, 128, 16, 148, 117, 52, 28, 244, 232, 31, 126, 4, 63, 125, 151, 21, 44, 16, 119, 47>>
    [] c = <<255, 1>> ->
      <<67, 124, 180, 58, 48, 34, 110, 99, 155, 51, 216, 69, 51, 207, 195, 221, 217, 112, 164, 0, 85, 185, 200, 192, 191, 126, 55, 149, 207, 24, 78, 182>>
    [] c = <<255, 255>> ->
      <<202, 47, 208, 15, 160, 1, 25, 7, 68, 193, 92, 49, 118, 67, 171, 9, 46, 112, 72, 206, 8, 106, 36, 62, 43, 233, 67, 124, 137, 141, 225, 187>>
    [] c = <<0, 0, 0>> ->
      <<112, 158, 128, 200, 132, 135, 162, 65, 30, 30, 228, 223, 185, 242, 42, 134, 20, 146, 210, 12, 71, 101, 21, 12, 12, 121, 74, 189, 112, 248, 20, 124>>
    [] c = <<0, 0, 1>> ->
      <<207, 118, 5, 237, 27, 199, 53, 246, 200, 37, 85, 65, 84, 98, 116, 103, 225, 202, 201, 223, 84, 206, 232, 105, 146, 24, 237, 67, 70, 3, 197, 104>>
    [] c = <<0, 0, 255>> ->
      <<174, 151, 77, 74, 116, 194, 55, 29, 140, 254, 132, 43, 122, 164, 246, 105, 141, 232, 87, 5, 38, 238, 179, 219, 25, 65, 176, 183, 35, 17, 212, 112>>
    [] c = <<0, 1, 0>> ->
      <<250, 238, 147, 87, 99, 4, 79, 18, 77, 117, 38, 117, 90, 80, 88, 163, 63, 148, 2, 165, 149, 153, 77, 89, 237, 221, 75, 232, 84, 111, 242, 1>>
    [] c = <<0, 1, 1>> ->
      <<251, 181, 158, 209, 14, 156, 212, 255, 69, 161, 44, 91, 185, 44, 189, 128, 223, 152, 75, 161, 254, 96, 242, 106, 48, 254, 191, 33, 142, 47, 15, 94>>
    [] c = <<0, 1, 255>> ->
      <<38, 166, 107, 6, 30, 143, 72, 243, 153, 39, 195, 18, 242, 82, 147, 149, 151, 41, 238, 233, 89, 120, 226, 137, 45, 73, 211, 81, 42, 92, 192, 146>>
    [] c = <<0, 255, 0>> ->
      <<44, 141, 7, 205, 152, 111, 88, 235, 33, 11, 216, 0, 19, 61, 102, 69, 199, 52, 12, 89, 134, 83, 119, 200, 234, 67, 28, 235, 202, 11, 49, 19>>
    [] c = <<0, 255, 1>> ->
      <<71, 255, 163, 234, 69, 167, 11, 138, 65, 194, 192, 130, 93, 243, 35, 192, 10, 139, 122, 1, 193, 234, 6, 8, 60, 196, 29, 221, 204, 0, 17, 35>>
    [] c = <<0, 255, 255>> ->
      <<121, 81, 249, 134, 98, 70, 148, 37, 102, 152, 92, 130, 201, 54, 61, 164, 103, 76, 170, 103, 63, 60, 79, 121, 25, 146, 115, 48, 171, 163, 116, 4>>
    [] c = <<1, 0, 0>> ->
      <<251, 80, 220, 7, 23, 255, 38, 108, 249, 186, 248, 43, 28, 231, 161, 194, 239, 109, 146, 71, 133, 150, 128, 177, 26, 25, 251, 112, 119, 245, 242, 34>>
    [] c = <<1, 0, 1>> ->
      <<133, 249, 13, 254, 161, 216, 2, 126, 20, 99, 229, 202, 151, 26, 37, 1, 16, 162, 13, 240, 17, 157, 32, 74, 116, 34, 11, 198, 53, 22, 209, 91>>
    [] c = <<1, 0, 255>> ->
      <<183, 174, 119, 41, 85, 94, 198, 130, 156, 87, 156, 38, 2, 237, 198, 203, 148, 180, 237, 61, 130, 13, 221, 160, 164, 90, 197, 64, 48, 248, 165, 61>>
    [] c = <<1, 1, 0>> ->
      <<159, 68, 172, 106, 203, 138, 55, 176, 11, 97, 93, 200, 146, 89, 211, 6, 3, 91, 232, 45, 238, 125, 178, 180, 114, 228, 196, 131, 38, 25, 84, 64>>
    [] c = <<1, 1, 1>> ->
      <<117, 200, 253, 4, 173, 145, 106, 236, 62, 61, 92, 183, 106, 69, 43, 17, 107, 61, 77, 9, 18, 160, 164, 133, 233, 251, 142, 61, 36, 14, 33, 12>>
    [] c = <<1, 1, 255>> ->
      <<255, 155, 87, 41, 213, 237, 136, 249, 112, 66, 161, 144, 24, 93, 80, 17, 44, 236, 219, 214, 47, 246, 127, 87, 220, 222, 34, 30, 99, 188, 149, 167>>
    [] c = <<1, 255, 0>> ->
      <<244, 160, 36, 66, 218, 44, 126, 126, 10, 190, 163, 54, 173, 9, 142, 27, 134, 12, 34, 90, 23, 10, 103, 30, 50, 71, 253, 186, 170, 105, 185, 165>>
    [] c = <<1, 255, 1>> ->
      <<159, 95, 119, 85, 71, 178, 33, 145, 21, 114, 93, 197, 144, 183, 92, 26, 1, 14, 198, 161, 166, 65, 245, 23, 191, 84, 249, 80, 47, 126, 36, 0>>
    [] c = <<1, 255, 255>> ->
      <<22, 147, 109, 17, 254, 192, 59, 101, 11, 128, 150, 154, 88, 101, 114, 107, 251, 76, 192, 2, 249, 31, 67, 111, 199, 234, 69, 38, 154, 87, 240, 179>>
    [] c = <<255, 0, 0>> ->
      <<127, 165, 74, 66, 82, 73, 22, 161, 100, 142, 199, 108, 231, 93, 41, 80, 36, 132, 11, 122, 58, 79, 75, 186, 243, 228, 49, 85, 208, 1, 71, 103>>
    [] c = <<255, 0, 1>> ->
      <<148, 46, 30, 42, 102, 164, 39, 182, 85, 23, 50, 247, 88, 188, 49, 79, 34, 185, 205, 236, 147, 101, 163, 66, 92, 145, 132, 222, 41, 147, 146, 181>>
    [] c = <<255, 0, 255>> ->
      <<41, 166, 161, 115, 229, 81, 29, 73, 74, 116, 205, 219, 53, 185, 208, 74, 208, 46, 165, 6, 14, 64, 103, 121, 213, 193, 15, 53, 244, 134, 34, 73>>
    [] c = <<255, 1, 0>> ->
      <<36, 8, 231, 147, 199, 30, 250, 226, 136, 134, 138, 152, 87, 110, 161, 128, 118, 63, 197, 200, 37, 236, 0, 2, 19, 20, 218, 204, 52, 244, 86, 27>>
    [] c = <<255, 1, 1>> ->
      <<145, 236, 72, 18, 172, 213, 202, 135, 213, 80, 77, 133, 214, 120, 72, 27, 41, 233, 81, 95, 37, 74, 209, 208, 19, 104, 85, 239, 251, 202, 68, 82>>
    [] c = <<255, 1, 255>> ->
      <<255, 199, 178, 146, 223, 240, 183, 186, 183, 108, 94, 122, 30, 164, 112, 79, 51, 249, 133, 206, 149, 41, 181, 42, 212, 224, 51, 232, 179, 190, 199, 236>>
    [] c = <<255, 255, 0>> ->
      <<7, 77, 153, 201, 131, 7, 40, 22, 203, 200, 217, 128, 196, 162, 253, 68, 31, 96, 54, 172, 160, 111, 131, 238, 20, 224, 92, 171, 90, 251, 237, 133>>
    [] c = <<255, 255, 1>> ->
      <<66, 240, 134, 38, 73, 198, 245, 29, 138, 170, 49, 216, 16, 217, 194, 228, 69, 89, 23, 182, 27, 11, 23, 241, 63, 189, 102, 0, 124, 182, 215, 94>>
    [] c = <<255, 255, 255>> ->
      <<90, 231, 230, 164, 35, 4, 220, 110, 65, 118, 33, 11, 131, 196, 48, 36, 249, 154, 11, 206, 154, 135, 12, 59, 109, 44, 149, 252, 142, 191, 183, 76>>
    [] c = <<0, 0, 0, 0>> ->
      <<223, 63, 97, 152, 4, 169, 47, 219, 64, 87, 25, 45, 196, 61, 215, 72, 234, 119, 138, 220, 82, 188, 73, 140, 232, 5, 36, 192, 20, 184, 17, 25>>
    [] c = <<0, 0, 0, 1>> ->
      <<180, 7, 17, 168, 140, 112, 57, 117, 111, 184, 167, 56, 39, 234, 190, 44, 15, 229, 160, 52, 108, 167, 224, 161, 4, 173, 192, 252, 118, 79, 82, 141>>
    [] c = <<0, 0, 0, 255>> ->
      <<227, 130, 0, 150, 203, 130, 54, 107, 134, 11, 138, 78, 102, 132, 83, 167, 170, 175, 66, 58, 240, 59, 223, 40, 159, 163, 8, 234, 3, 167, 147, 50>>
    [] c = <<0, 0, 1, 0>> ->
      <<107, 30, 115, 160, 9, 75, 123, 129, 45, 59, 158, 34, 207, 251, 79, 130, 57, 49, 152, 71, 82, 44, 79, 161, 3, 117, 59, 105, 80, 2, 15, 147>>
    [] c = <<0, 0, 1, 1>> ->
      <<74, 252, 125, 152, 81, 129, 128, 51, 26, 85, 226, 247, 178, 208, 63, 147, 193, 93, 28, 36, 175, 201, 118, 205, 251, 87, 55, 224, 42, 25, 2, 3>>
    [] c = <<0, 0, 1, 255>> ->
      <<196, 156, 59, 141, 231, 68, 85, 218, 179, 45, 226, 239, 194, 54, 172, 127, 5, 159, 153, 160, 79, 4, 7, 252, 63, 83, 12, 86, 135, 136, 24, 163>>
    [] c = <<0, 0, 255, 0>> ->
      <<191, 69, 113, 17, 60, 216, 194, 38, 36, 37, 229, 188, 92, 56, 172, 232, 144, 159, 66, 21, 86, 159, 73, 173, 17, 95, 135, 68, 93, 89, 109, 2>>
    [] c = <<0, 0, 255, 1>> ->
      <<103, 12, 193, 160, 9, 85, 233, 55, 86, 63, 20, 217, 94, 238, 119, 43, 127, 14, 227, 33, 175, 17, 127, 24, 136, 66, 237, 71, 201, 58, 28, 241>>
    [] c = <<0, 0, 255, 255>> ->
      <<183, 209, 179, 161, 16, 76, 200, 107, 28, 234, 49, 7, 147, 207, 119, 112, 2, 219, 5, 23, 40, 29, 19, 90, 2, 222, 7, 155, 14, 168, 124, 35>>
    [] c = <<0, 1, 0, 0>> ->
      <<191, 94, 143, 250, 81, 169, 231, 72, 152, 88, 0, 193, 211, 215, 241, 162, 166, 174, 116, 53, 19, 101, 147, 202, 141, 150, 55, 227, 248, 124, 105, 156>>
    [] c = <<0, 1, 0, 1>> ->
      <<118, 204, 88, 5, 218, 185, 180, 234, 206, 253, 180, 119, 244, 152, 2, 15, 216, 43, 204, 219, 201, 198, 162, 217, 206, 16, 88, 106, 200, 85, 18, 180>>
    [] c = <<0, 1, 0, 255>> ->
      <<53, 64, 91, 206, 93, 199, 202, 206, 221, 156, 67, 115, 230, 141, 1, 179, 105, 218, 75, 93, 163, 78, 207, 144, 208, 219, 38, 84, 22, 121, 127, 113>>
    [] c = <<0, 1, 1, 0>> ->
      <<213, 226, 210, 172, 7, 183, 65, 190, 88, 246, 185, 229, 14, 222, 95, 220, 241, 111, 62, 128, 83, 236, 239, 147, 80, 231, 116, 75, 13, 139, 217, 12>>
    [] c = <<0, 1, 1, 1>> ->
      <<203, 217, 90, 229, 239, 136, 16, 105, 30, 63, 199, 239, 183, 195, 158, 249, 255, 182, 97, 19, 93, 133, 138, 160, 204, 200, 31, 199, 74, 1, 96, 174>>
    [] c = <<0, 1, 1, 255>> ->
      <<145, 9, 191, 177, 186, 206, 226, 236, 243, 13, 167, 85, 87, 101, 240, 201, 19, 171, 111, 77, 245, 45, 55, 185, 29, 52, 10, 239, 110, 255, 69, 205>>
    [] c = <<0, 1, 255, 0>> ->
      <<125, 92, 93, 232, 76, 143, 244, 2, 124, 251, 0, 58, 237, 35, 125, 75, 39, 208, 254, 110, 223, 183, 232, 62, 62, 75, 218, 135, 197, 238, 199, 217>>
    [] c = <<0, 1, 255, 1>> ->
      <<216, 221, 20, 113, 239, 191, 184, 168, 220, 108, 145, 210, 15, 189, 116, 101, 45, 51, 58, 166, 205, 105, 135, 209, 37, 215, 150, 165, 91, 194, 19, 104>>
    [] c = <<0, 1, 255, 255>> ->
      <<166, 226, 211, 160, 144, 192, 250, 251, 201, 39, 228, 250, 155, 104, 189, 164, 149, 235, 147, 164, 113, 252, 96, 20, 82, 19, 226, 162, 127, 25, 140, 82>>
    [] c = <<0, 255, 0, 0>> ->
      <<232, 144, 243, 80, 244, 56, 92, 254, 91, 72, 102, 40, 144, 108, 203, 35, 112, 102, 61, 64, 118, 63, 80, 211, 156, 39, 45, 73, 179, 213, 131, 166>>
    [] c = <<0, 255, 0, 1>> ->
      <<89, 205, 110, 116, 125, 73, 174, 69, 197, 208, 248, 209, 20, 18, 235, 173, 228, 183, 97, 216, 177, 220, 33, 216, 50, 64, 253, 181, 143, 101, 199, 92>>
    [] c = <<0, 255, 0, 255>> ->
      <<122, 123, 244, 84, 197, 243, 203, 27, 157, 154, 32, 248, 20, 23, 249, 141, 151, 111, 227, 179, 221, 82, 193, 185, 150, 143, 2, 232, 158, 126, 138, 47>>
    [] c = <<0, 255, 1, 0>> ->
      <<148, 127, 117, 248, 48, 142, 134, 81, 40, 153, 132, 78, 118, 8, 19, 94, 153, 231, 217, 217, 14, 170, 192, 230, 86, 154, 95, 55, 100, 97, 27, 138>>
    [] c = <<0, 255, 1, 1>> ->
      <<250, 169, 38, 4, 54, 223, 160, 117, 150, 195, 100, 47, 80, 22, 183, 251, 29, 205, 83, 172, 72, 180, 10, 30, 77, 188, 49, 192, 129, 188, 147, 114>>
    [] c = <<0, 255, 1, 255>> ->
      <<202, 129, 150, 128, 150, 187, 164, 213, 241, 128, 112, 136, 115, 168, 168, 4, 184, 33, 219, 164, 242, 41, 42, 234, 129, 9, 14, 229, 86, 242, 61, 132>>
    [] c = <<0, 255, 255, 0>> ->
      <<16, 219, 82, 35, 209, 155, 209, 213, 140, 43, 142, 179, 199, 35, 176, 186, 16, 76, 241, 117, 100, 249, 67, 78, 83, 225, 185, 230, 66, 251, 59, 55>>
    [] c = <<0, 255, 255, 1>> ->
      <<86, 249, 240, 29, 67, 187, 158, 237, 131, 8, 106, 85, 82, 74, 225, 230, 15, 9, 133, 90, 138, 94, 200, 240, 93, 181, 124, 242, 198, 107, 118, 22>>
    [] c = <<0, 255, 255, 255>> ->
      <<158, 131, 80, 155, 95, 40, 145, 195, 130, 219, 215, 14, 187, 31, 23, 209, 253, 107, 65, 149, 31, 135, 113, 51, 104, 6, 14, 189, 167, 140, 197, 5>>
    [] c = <<1, 0, 0, 0>> ->
      <<103, 171, 221, 114, 16, 36, 240, 255, 78, 11, 63, 76, 47, 193, 59, 197, 186, 212, 45, 11, 120, 81, 212, 86, 216, 141, 32, 61, 21, 170, 164, 80>>
    [] c = <<1, 0, 0, 1>> ->
      <<175, 167, 81, 129, 6, 48, 156, 34, 211, 37, 223, 109, 38, 99, 36, 157, 21, 141, 47, 54, 241, 151, 98, 105, 214, 212, 16, 77, 145, 152, 161, 8>>
    [] c = <<1, 0, 0, 255>> ->
      <<82, 86, 57, 7, 90, 12, 197, 42, 166, 65, 121, 32, 84, 135, 93, 106, 56, 125, 101, 87, 154, 254, 154, 69, 181, 229, 188, 72, 241, 123, 59, 80>>
    [] c = <<1, 0, 1, 0>> ->
      <<80, 117, 3, 181, 25, 96, 204, 237, 168, 217, 36, 144, 79, 184, 83, 119, 254, 125, 23, 127, 184, 223, 207, 86, 178, 78, 69, 87, 100, 78, 212, 134>>
    [] c = <<1, 0, 1, 1>> ->
      <<82, 165, 196, 161, 6, 87, 34, 12, 172, 5, 198, 58, 223, 169, 35, 199, 119, 28, 85, 216, 104, 165, 142, 227, 96, 235, 61, 21, 17, 152, 92, 62>>
    [] c = <<1, 0, 1, 255>> ->
      <<128, 198, 147, 135, 104, 116, 183, 134, 66, 180, 146, 185, 102, 220, 180, 125, 182, 149, 254, 126, 244, 108, 155, 161, 67, 184, 85, 166, 234, 20, 126, 248>>
    [] c = <<1, 0, 255, 0>> ->
      <<16, 137, 38, 86, 43, 35, 3, 185, 255, 253, 250, 163, 79, 90, 238, 175, 112, 26, 120, 82, 49, 209, 222, 66, 162, 201, 213, 148, 143, 198, 188, 62>>
    [] c = <<1, 0, 255, 1>> ->
      <<21, 227, 181, 29, 124, 70, 199, 210, 204, 3, 170, 63, 243, 146, 170, 10, 162, 186, 142, 15, 87, 7, 123, 187, 182, 71, 242, 216, 144, 58, 142, 10>>
    [] c = <<1, 0, 255, 255>> ->
      <<22, 184, 203, 31, 231, 52, 251, 198, 12, 103, 99, 201, 76, 158, 76, 197, 88, 64, 174, 150, 110, 126, 80, 139, 168, 47, 83, 157, 130, 112, 37, 17>>
    [] c = <<1, 1, 0, 0>> ->
      <<160, 69, 74, 36, 221, 75, 196, 24, 68, 140, 161, 147, 32, 81, 158, 163, 254, 84, 79, 161, 169, 16, 134, 139, 98, 202, 33, 6, 20, 241, 25, 248>>
    [] c = <<1, 1, 0, 1>> ->
      <<37, 44, 11, 107, 8, 15, 160, 69, 172, 252, 209, 67, 127, 105, 63, 59, 226, 190, 42, 200, 34, 62, 165, 37, 212, 146, 250, 25, 171, 2, 137, 66>>
    [] c = <<1, 1, 0, 255>> ->
      <<4, 91, 30, 140, 133, 71, 248, 7, 109, 50, 42, 26, 192, 17, 123, 52, 187, 29, 93, 157, 138, 224, 135, 197, 143, 82, 206, 255, 46, 173, 226, 28>>
    [] c = <<1, 1, 1, 0>> ->
      <<248, 150, 195, 165, 249, 132, 27, 110, 31, 10, 34, 189, 53, 166, 161, 188, 94, 251, 40, 170, 162, 59, 102, 48, 30, 200, 9, 140, 229, 124, 249, 154>>
    [] c = <<1, 1, 1, 1>> ->
      <<39, 236, 208, 165, 152, 231, 111, 138, 47, 210, 100, 212, 39, 223, 10, 17, 153, 3, 232, 234, 227, 132, 228, 120, 144, 37, 65, 117, 111, 8, 157, 209>>
    [] c = <<1, 1, 1, 255>> ->
      <<174, 12, 53, 158, 195, 151, 99, 182, 63, 171, 80, 40, 185, 194, 11, 220, 24, 123, 2, 207, 11, 129, 238, 211, 67, 222, 155, 68, 168, 76, 50, 193>>
    [] c = <<1, 1, 255, 0>> ->
      <<36, 57, 252, 159, 218, 89, 183, 79, 38, 74, 181, 17, 59, 181, 32, 169, 240, 97, 121, 47, 74, 33, 154, 247, 71, 234, 107, 121, 21, 167, 50, 98>>
    [] c = <<1, 1, 255, 1>> ->
      <<168, 129, 2, 80, 107, 27, 82, 139, 243, 39, 3, 110, 159, 94, 202, 32, 196, 35, 52, 230, 207, 5, 9, 171, 77, 251, 130, 131, 133, 182, 214, 82>>
    [] c = <<1, 1, 255, 255>> ->
      <<243, 113, 53, 78, 96, 36, 230, 202, 141, 197, 211, 3, 124, 238, 10, 78, 187, 74, 102, 162, 211, 129, 187, 101, 104, 177, 5, 181, 15, 92, 202, 118>>
    [] c = <<1, 255, 0, 0>> ->
      <<44, 49, 12, 38, 57, 14, 79, 182, 5, 149, 253, 228, 105, 81, 74, 58, 24, 163, 41, 157, 91, 224, 211, 0, 206, 72, 52, 230, 167, 42, 177, 148>>
    [] c = <<1, 255, 0, 1>> ->
      <<28, 3, 62, 198, 151, 95, 38, 138, 204, 208, 192, 112, 254, 161, 125, 248, 85, 112, 232, 101, 109, 12, 134, 254, 72, 123, 19, 175, 169, 41, 40, 209>>
    [] c = <<1, 255, 0, 255>> ->
      <<88, 33, 126, 39, 171, 187, 190, 220, 214, 112, 170, 73, 230, 7, 224, 101, 48, 194, 58, 36, 215, 189, 103, 147, 64, 113, 122, 29, 130, 81, 235, 161>>
    [] c = <<1, 255, 1, 0>> ->
      <<29, 170, 10, 144, 252, 66, 85, 233, 243, 196, 201, 225, 206, 18, 68, 124, 111, 187, 5, 161, 213, 137, 123, 97, 22, 25, 157, 77, 127, 19, 242, 192>>
    [] c = <<1, 255, 1, 1>> ->
      <<174, 249, 82, 80, 5, 170, 58, 13, 24, 83, 101, 69, 207, 253, 248, 204, 214, 12, 246, 100, 222, 201, 133, 94, 5, 237, 126, 5, 185, 153, 97, 165>>
    [] c = <<1, 255, 1, 255>> ->
      <<126, 110, 67, 100, 225, 67, 181, 113, 12, 216, 203, 4, 167, 238, 151, 184, 201, 199, 21, 210, 179, 29, 198, 214, 11, 88, 133, 80, 19, 222, 161, 115>>
    [] c = <<1, 255, 255, 0>> ->
      <<163, 78, 120, 206, 176, 116, 169, 33, 203, 208, 27, 52, 50, 168, 164, 9, 184, 93, 214, 196, 201, 1, 39, 188, 26, 102, 87, 31, 177, 60, 39, 36>>
    [] c = <<1, 255, 255, 1>> ->
      <<37, 116, 3, 164, 30, 60, 120, 39, 167, 108, 33, 8, 44, 208, 187, 158, 116, 123, 252, 192, 125, 165, 177, 45, 144, 80, 66, 131, 173, 248, 154, 24>>
    [] c = <<1, 255, 255, 255>> ->
      <<40, 215, 10, 130, 93, 219, 128, 63, 187, 38, 220, 88, 46, 229, 244, 206, 63, 10, 134, 31, 93, 145, 45, 56, 41, 206, 40, 42, 70, 63, 142, 120>>
    [] c = <<255, 0, 0, 0>> ->
      <<129, 255, 101, 239, 196, 72, 120, 83, 189, 180, 98, 85, 89, 230, 154, 180, 79, 25, 224, 245, 239, 189, 109, 91, 42, 245, 227, 171, 38, 124, 142, 6>>
    [] c = <<255, 0, 0, 1>> ->
      <<37, 214, 114, 242, 253, 31, 180, 98, 212, 110, 212, 130, 75, 211, 120, 32, 236, 101, 238, 222, 63, 176, 91, 209, 65, 206, 146, 194, 155, 150, 86, 74>>
    [] c = <<255, 0, 0, 255>> ->
      <<52, 170, 167, 70, 194, 90, 15, 16, 92, 67, 22, 187, 177, 240, 9, 170, 53, 159, 73, 88, 38, 86, 238, 151, 215, 60, 88, 19, 45, 86, 52, 35>>
    [] c = <<255, 0, 1, 0>> ->
      <<252, 172, 88, 152, 15, 80, 83, 182, 11, 196, 31, 2, 175, 10, 23, 169, 0, 63, 83, 119, 237, 250, 237, 119, 53, 205, 67, 52, 82, 240, 144, 105>>
    [] c = <<255, 0, 1, 1>> ->
      <<196, 17, 143, 135, 135, 27, 236, 59, 181, 99, 88, 159, 250, 103, 225, 56, 147, 203, 143, 199, 47, 127, 11, 40, 64, 135, 251, 11, 160, 13, 80, 141>>
    [] c = <<255, 0, 1, 255>> ->
      <<218, 4, 165, 185, 63, 3, 221, 169, 222, 214, 84, 41, 113, 172, 207, 143, 203, 9, 79, 93, 63, 175, 191, 129, 0, 11, 109, 154, 212, 145, 170, 26>>
    [] c = <<255, 0, 255, 0>> ->
      <<53, 84, 114, 107, 160, 245, 64, 79, 154, 13, 63, 49, 128, 65, 212, 32, 247, 220, 148, 164, 8, 138, 84, 138, 140, 33, 72, 188, 253, 139, 180, 154>>
    [] c = <<255, 0, 255, 1>> ->
      <<220, 58, 189, 61, 243, 206, 95, 46, 80, 61, 159, 9, 212, 5, 250, 191, 180, 125, 97, 87, 22, 142, 69, 105, 182, 162, 236, 88, 170, 207, 169, 238>>
    [] c = <<255, 0, 255, 255>> ->
      <<247, 249, 225, 61, 138, 206, 57, 88, 179, 254, 226, 162, 203, 250, 29, 22, 220, 144, 82, 59, 78, 164, 253, 18, 76, 142, 58, 186, 106, 135, 36, 1>>
    [] c = <<255, 1, 0, 0>> ->
      <<168, 217, 229, 113, 163, 246, 247, 157, 165, 255, 244, 189, 162, 121, 38, 161, 135, 0, 49, 54, 158, 193, 55, 214, 88, 115, 5, 200, 239, 236, 128, 210>>
    [] c = <<255, 1, 0, 1>> ->
      <<242, 237, 229, 238, 123, 15, 168, 29, 243, 227, 117, 68, 250, 187, 68, 125, 104, 55, 198, 185, 33, 21, 160, 131, 93, 218, 222, 129, 233, 189, 32, 213>>
    [] c = <<255, 1, 0, 255>> ->
      <<21, 2, 80, 202, 175, 88, 48, 12, 91, 255, 8, 213, 99, 8, 12, 4, 105, 65, 69, 71, 73, 207, 41, 225, 54, 180, 12, 89, 23, 60, 92, 120>>
    [] c = <<255, 1, 1, 0>> ->
      <<85, 34, 44, 229, 134, 103, 27, 162, 6, 240, 2, 188, 251, 222, 214, 62, 163, 177, 37, 220, 118, 59, 50, 107, 198, 183, 218, 129, 201, 147, 95, 162>>
    [] c = <<255, 1, 1, 1>> ->
      <<17, 155, 125, 16, 85, 40, 186, 45, 41, 206, 27, 221, 136, 42, 102, 135, 100, 165, 122, 98, 17, 141, 226, 129, 239, 179, 158, 191, 243, 230, 19, 119>>
    [] c = <<255, 1, 1, 255>> ->
      <<152, 43, 92, 136, 176, 235, 10, 210, 200, 26, 137, 110, 250, 101, 220, 141, 161, 192, 198, 14, 50, 22, 95, 115, 234, 156, 10, 183, 104, 187, 46, 153>>
    [] c = <<255, 1, 255, 0>> ->
      <<42, 252, 125, 3, 11, 215, 197, 69, 215, 141, 61, 62, 97, 20, 114, 145, 202, 212, 162, 181, 145, 93, 19, 211, 198, 20, 172, 50, 150, 141, 135, 143>>
    [] c = <<255, 1, 255, 1>> ->
      <<254, 0, 18, 17, 97, 113, 231, 187, 160, 243, 180, 14, 125, 109, 96, 83, 100, 232, 116, 109, 110, 184, 106, 172, 111, 69, 103, 202, 77, 179, 31, 85>>
    [] c = <<255, 1, 255, 255>> ->
      <<92, 180, 48, 251, 51, 72, 196, 213, 186, 19, 144, 15, 42, 56, 155, 213, 168, 229, 243, 82, 139, 217, 155, 48, 77, 226, 182, 137, 119, 253, 49, 106>>
    [] c = <<255, 255, 0, 0>> ->
      <<8, 239, 234, 28, 9, 87, 165, 161, 254, 1, 158, 110, 219, 33, 253, 201, 251, 229, 222, 34, 19, 72, 126, 171, 122, 5, 224, 110, 202, 28, 151, 132>>
    [] c = <<255, 255, 0, 1>> ->
      <<211, 24, 120, 235, 118, 2, 80, 10, 76, 251, 180, 138, 148, 148, 88, 16, 231, 22, 177, 28, 56, 190, 67, 72, 23, 136, 224, 30, 248, 37, 81, 47>>
    [] c = <<255, 255, 0, 255>> ->
      <<95, 193, 243, 181, 223, 195, 175, 159, 74, 60, 84, 199, 127, 68, 130, 22, 200, 41, 8, 206, 57, 83, 129, 63, 30, 18, 105, 91, 183, 18, 113, 200>>
    [] c = <<255, 255, 1, 0>> ->
      <<209, 180, 237, 232, 112, 32, 35, 183, 179, 83, 50, 91, 45, 40, 222, 215, 33, 7, 40, 49, 108, 119, 16, 127, 68, 65, 106, 175, 51, 138, 220, 69>>
    [] c = <<255, 255, 1, 1>> ->
      <<181, 12, 67, 18, 22, 220, 149, 105, 206, 60, 69, 183, 177, 93, 81, 230, 194, 55, 67, 28, 63, 199, 155, 6, 25, 60, 155, 15, 6, 59, 25, 169>>
    [] c = <<255, 255, 1, 255>> ->
      <<134, 97, 27, 9, 76, 80, 8, 90, 105, 171, 157, 60, 78, 70, 73, 17, 179, 18, 117, 243, 252, 7, 229, 197, 158, 73, 159, 97, 241, 83, 46, 25>>
    [] c = <<255, 255, 255, 0>> ->
      <<111, 198, 244, 82, 65, 97, 195, 174, 13, 49, 104, 18, 215, 8, 142, 63, 205, 55, 32, 35, 237, 174, 162, 215, 130, 16, 147, 190, 64, 174, 16, 96>>
    [] c = <<255, 255, 255, 1>> ->
      <<200, 176, 34, 191, 135, 12, 42, 109, 68, 133, 195, 9, 148, 111, 118, 205, 131, 201, 141, 154, 122, 234, 180, 64, 101, 61, 140, 61, 25, 214, 205, 71>>
    [] c = <<255, 255, 255, 255>> ->
      <<173, 149, 19, 27, 192, 183, 153, 192, 177, 175, 71, 127, 177, 79, 207, 38, 166, 169, 247, 96, 121, 228, 139, 240, 144, 172, 183, 232, 54, 123, 253, 14>>
    [] c = <<0, 0, 0, 0, 0>> ->
      <<136, 85, 80, 138, 173, 225, 110, 197, 115, 210, 30, 106, 72, 93, 253, 10, 118, 36, 8, 92, 26, 20, 181, 236, 221, 100, 133, 222, 12, 104, 57, 164>>
    [] c = <<0, 0, 0, 0, 1>> ->
      <<21, 242, 241, 164, 51, 159, 95, 42, 49, 59, 149, 1, 92, 173, 129, 36, 208, 84, 161, 113, 172, 47, 49, 207, 82, 157, 218, 124, 251, 106, 56, 180>>
    [] c = <<0, 0, 0, 0, 255>> ->
      <<160, 150, 15, 141, 99, 191, 228, 252, 230, 194, 106, 233, 227, 63, 143, 45, 39, 41, 35, 154, 59, 244, 124, 155, 94, 233, 160, 194, 196, 86, 163, 158>>
    [] c = <<0, 0, 0, 1, 0>> ->
      <<6, 13, 198, 62, 85, 149, 223, 251, 209, 97, 201, 236, 152, 188, 6, 252, 246, 124, 178, 46, 46, 117, 236, 223, 0, 3, 130, 19, 136, 174, 238, 77>>
    [] c = <<0, 0, 0, 1, 1>> ->
      <<161, 249, 165, 73, 221, 199, 132, 149, 149, 55, 240, 132, 199, 154, 197, 86, 77, 232, 8, 5, 3, 223, 200, 66, 165, 70, 22, 51, 123, 135, 215, 149>>
    [] c = <<0, 0, 0, 1, 255>> ->
      <<18, 85, 42, 98, 211, 167, 100, 255, 74, 224, 177, 21, 98, 9, 81, 67, 215, 17, 97, 170, 253, 76, 217, 211, 106, 142, 50, 75, 89, 64, 235, 144>>
    [] c = <<0, 0, 0, 255, 0>> ->
      <<35, 25, 99, 186, 1, 220, 147, 241, 88, 121, 13, 59, 227, 189, 113, 89, 195, 237, 122, 132, 190, 147, 95, 36, 191, 25, 17, 19, 30, 173, 58, 52>>
    [] c = <<0, 0, 0, 255, 1>> ->
      <<62, 157, 169, 151, 113, 18, 254, 237, 71, 218, 247, 92, 204, 92, 11, 198, 192, 113, 11, 108, 214, 251, 208, 156, 34, 28, 196, 111, 148, 105, 58, 83>>
    [] c = <<0, 0, 0, 255, 255>> ->
      <<235, 106, 181, 4, 218, 11, 67, 132, 23, 64, 204, 66, 35, 38, 60, 180, 247, 233, 149, 61, 163, 105, 143, 254, 7, 118, 166, 97, 147, 76, 90, 184>>
    [] c = <<0, 0, 1, 0, 0>> ->
      <<0, 212, 113, 52, 41, 228, 253, 33, 89, 126, 2, 53, 91, 30, 179, 11, 218, 225, 34, 90, 22, 62, 183, 230, 85, 50, 140, 117, 168, 119, 188, 100>>
    [] c = <<0, 0, 1, 0, 1>> ->
      <<124, 57, 227, 238, 183, 199, 251, 184, 115, 103, 154, 121, 156, 75, 231, 78, 134, 157, 10, 92, 167, 32, 189, 92, 232, 43, 34, 185, 187, 147, 19, 90>>
    [] c = <<0, 0, 1, 0, 255>> ->
      <<55, 233, 84, 103, 15, 214, 70, 207, 59, 12, 152, 130, 165, 255, 91, 18, 14, 68, 49, 124, 25, 93, 253, 218, 118, 88, 168, 11, 115, 50, 185, 168>>
    [] c = <<0, 0, 1, 1, 0>> ->
      <<117, 14, 184, 129, 73, 116, 136, 104, 239, 176, 245, 47, 216, 90, 73, 255, 153, 75, 115, 214, 88, 189, 213, 15, 14, 0, 83, 11, 168, 241, 29, 48>>
    [] c = <<0, 0, 1, 1, 1>> ->
      <<142, 12, 90, 204, 10, 47, 83, 24, 161, 96, 116, 107, 73, 114, 83, 205, 0, 255, 195, 199, 94, 131, 143, 213, 176, 222, 171, 42, 35, 238, 175, 247>>
    [] c = <<0, 0, 1, 1, 255>> ->
      <<39, 146, 73, 45, 160, 65, 5, 245, 106, 97, 184, 139, 233, 153, 128, 52, 138, 170, 106, 231, 127, 186, 219, 141, 110, 55, 235, 197, 35, 250, 179, 154>>
    [] c = <<0, 0, 1, 255, 0>> ->
      <<235, 58, 246, 26, 189, 33, 74, 226, 240, 177, 218, 3, 103, 109, 128, 96, 70, 1, 142, 73, 237, 179, 185, 223, 3, 208, 161, 143, 11, 34, 65, 231>>
    [] c = <<0, 0, 1, 255, 1>> ->
      <<220, 186, 1, 193, 48, 111, 116, 214, 19, 141, 7, 122, 78, 249, 110, 190, 46, 168, 60, 18, 9, 156, 137, 58, 239, 43, 7, 51, 172, 218, 55, 241>>
    [] c = <<0, 0, 1, 255, 255>> ->
      <<76, 38, 81, 87, 28, 121, 105, 82, 232, 176, 49, 229, 247, 202, 87, 134, 187, 65, 65, 227, 161, 194, 138, 193, 175, 233, 142, 93, 57, 221, 20, 162>>
    [] c = <<0, 0, 255, 0, 0>> ->
      <<102, 82, 226, 247, 145, 119, 225, 110, 41, 52, 31, 21, 234, 237, 155, 224, 193, 6, 87, 37, 80, 37, 41, 47, 43, 62, 39, 15, 143, 154, 138, 102>>
    [] c = <<0, 0, 255, 0, 1>> ->
      <<134, 233, 189, 214, 87, 112, 209, 27, 138, 35, 181, 28, 11, 217, 12, 29, 11, 190, 31, 130, 9, 219, 123, 2, 37, 241, 248, 244, 209, 142, 164, 100>>
    [] c = <<0, 0, 255, 0, 255>> ->
      <<212, 222, 241, 226, 33, 200, 127, 39, 144, 241, 103, 47, 185, 113, 234, 16, 82, 239, 67, 204, 27, 159, 30, 194, 210, 243, 31, 137, 174, 161, 109, 44>>
    [] c = <<0, 0, 255, 1, 0>> ->
      <<210, 105, 64, 190, 166, 8, 211, 224, 16, 64, 158, 76, 203, 169, 154, 10, 244, 35, 37, 237, 198, 77, 95, 98, 78, 3, 159, 51, 127, 173, 79, 224>>
    [] c = <<0, 0, 255, 1, 1>> ->
      <<49, 79, 241, 145, 59, 243, 229, 92, 193, 106, 89, 9, 164, 230, 164, 50, 255, 213, 48, 67, 0, 83, 71, 239, 65, 230, 94, 234, 225, 38, 147, 46>>
    [] c = <<0, 0, 255, 1, 255>> ->
      <<0, 9, 187, 77, 140, 104, 138, 38, 92, 179, 102, 228, 227, 88, 131, 136, 50, 98, 236, 34, 130, 130, 175, 42, 191, 131, 249, 118, 9, 73, 159, 90>>
    [] c = <<0, 0, 255, 255, 0>> ->
      <<135, 36, 228, 156, 229, 236, 140, 204, 161, 155, 48, 47, 185, 243, 73, 176, 230, 128, 103, 128, 141, 24, 165, 232, 19, 183, 41, 8, 117, 57, 101, 171>>
    [] c = <<0, 0, 255, 255, 1>> ->
      <<203, 232, 155, 68, 129, 188, 23, 34, 88, 24, 202, 165, 121, 126, 103, 21, 222, 30, 7, 85, 185, 66, 83, 6, 158, 195, 86, 173, 16, 188, 211, 179>>
    [] c = <<0, 0, 255, 255, 255>> ->
      <<104, 0, 98, 35, 113, 147, 145, 225, 22, 236, 241, 45, 220, 212, 54, 218, 137, 138, 212, 240, 243, 17, 92, 167, 205, 230, 246, 7, 216, 254, 162, 131>>
    [] c = <<0, 1, 0, 0, 0>> ->
      <<134, 249, 100, 148, 153, 176, 8, 6, 86, 192, 20, 170, 36, 79, 101, 72, 100, 186, 212, 20, 92, 133, 19, 233, 200, 64, 159, 67, 125, 74, 43, 59>>
    [] c = <<0, 1, 0, 0, 1>> ->
      <<204, 108, 217, 176, 66, 80, 11, 42, 19, 116, 212, 13, 223, 235, 96, 90, 165, 235, 222, 34, 20, 6, 123, 187, 118, 30, 133, 212, 240, 171, 32, 185>>
    [] c = <<0, 1, 0, 0, 255>> ->
      <<231, 245, 104, 199, 178, 125, 105, 132, 227, 249, 87, 221, 182, 164, 113, 131, 146, 14, 90, 176, 84, 134, 132, 234, 87, 91, 39, 122, 201, 121, 39, 176>>
    [] c = <<0, 1, 0, 1, 0>> ->
      <<1, 226, 70, 181, 141, 142, 120, 47, 201, 104, 129, 192, 144, 216, 51, 238, 250, 55, 232, 4, 203, 48, 138, 234, 224, 247, 71, 28, 158, 241, 234, 26>>
    [] c = <<0, 1, 0, 1, 1>> ->
      <<31, 223, 199, 13, 108, 60, 209, 122, 160, 229, 30, 139, 119, 140, 246, 114, 174, 242, 111, 220, 0, 44, 223, 26, 107, 63, 174, 177, 37, 16, 145, 14>>
    [] c = <<0, 1, 0, 1, 255>> ->
      <<63, 50, 199, 6, 153, 200, 103, 207, 238, 144, 19, 10, 216, 29, 15, 180, 185, 185, 133, 23, 217, 23, 197, 91, 166, 14, 213, 192, 113, 2, 100, 201>>
    [] c = <<0, 1, 0, 255, 0>> ->
      <<79, 44, 190, 178, 204, 56, 71, 73, 169, 148, 92, 105, 189, 8, 209, 252, 223, 10, 190, 176, 200, 219, 28, 67, 221, 167, 245, 203, 138, 223, 25, 51>>
    [] c = <<0, 1, 0, 255, 1>> ->
      <<81, 131, 101, 152, 221, 152, 47, 19, 251, 25, 16, 73, 47, 94, 129, 95, 86, 86, 250, 28, 107, 142, 148, 188, 221, 145, 246, 251, 226, 245, 172, 228>>
    [] c = <<0, 1, 0, 255, 255>> ->
      <<228, 44, 202, 112, 84, 199, 151, 125, 64, 187, 48, 134, 24, 30, 144, 234, 175, 6, 123, 199, 246, 248, 26, 190, 187, 95, 173, 61, 197, 255, 67, 230>>
    [] c = <<0, 1, 1, 0, 0>> ->
      <<49, 228, 138, 36, 232, 197, 126, 251, 83, 180, 200, 93, 153, 91, 40, 137, 41, 40, 122, 57, 176, 137, 195, 22, 48, 100, 21, 17, 202, 99, 222, 240>>
    [] c = <<0, 1, 1, 0, 1>> ->
      <<171, 197, 94, 248, 241, 210, 147, 55, 110, 157, 207, 170, 4, 31, 172, 107, 25, 62, 53, 46, 186, 164, 102, 165, 247, 245, 59, 143, 84, 49, 111, 24>>
    [] c = <<0, 1, 1, 0, 255>> ->
      <<58, 222, 231, 59, 187, 173, 49, 4, 82, 110, 45, 168, 174, 246, 149, 163, 197, 53, 80, 57, 192, 75, 182, 47, 208, 117, 211, 198, 131, 61, 168, 141>>
    [] c = <<0, 1, 1, 1, 0>> ->
      <<81, 252, 99, 77, 226, 110, 108, 23, 36, 146, 121, 128, 41, 223, 198, 84, 131, 134, 32, 140, 9, 142, 214, 135, 72, 215, 137, 66, 174, 19, 63, 70>>
    [] c = <<0, 1, 1, 1, 1>> ->
      <<197, 250, 122, 79, 5, 94, 207, 179, 16, 207, 240, 120, 133, 42, 8, 200, 50, 190, 154, 196, 196, 211, 14, 203, 115, 228, 181, 86, 48, 255, 241, 159>>
    [] c = <<0, 1, 1, 1, 255>> ->
      <<236, 187, 236, 39, 6, 177, 201, 169, 129, 125, 124, 209, 86, 103, 232, 242, 103, 139, 74, 226, 92, 57, 29, 88, 15, 255, 167, 231, 109, 214, 101, 39>>
    [] c = <<0, 1, 1, 255, 0>> ->
      <<225, 155, 171, 169, 91, 81, 29, 193, 38, 24, 158, 105, 17, 128, 26, 203, 245, 160, 110, 21, 235, 36, 65, 248, 119, 129, 208, 21, 85, 242, 214, 163>>
    [] c = <<0, 1, 1, 255, 1>> ->
      <<158, 239, 1, 240, 210, 1, 45, 159, 21, 208, 2, 0, 60, 210, 55, 118, 65, 142, 52, 70, 168, 140, 175, 194, 67, 171, 149, 28, 70, 94, 8, 17>>
    [] c = <<0, 1, 1, 255, 255>> ->
      <<141, 120, 165, 33, 178, 192, 240, 18, 247, 138, 147, 53, 1, 16, 127, 47, 247, 180, 91, 18, 77, 60, 68, 12, 181, 18, 162, 215, 87, 198, 163, 170>>
    [] c = <<0, 1, 255, 0, 0>> ->
      <<18, 151, 101, 59, 255, 146, 154, 205, 116, 21, 207, 228, 32, 131, 255, 248, 172, 51, 161, 89, 192, 187, 175, 19, 171, 1, 42, 143, 23, 77, 2, 50>>
    [] c = <<0, 1, 255, 0, 1>> ->
      <<106, 155, 0, 127, 95, 252, 34, 178, 1, 222, 134, 173, 8, 77, 75, 67, 65, 211, 242, 6, 7, 74, 190, 209, 36, 159, 108, 47, 62, 157, 246, 164>>
    [] c = <<0, 1, 255, 0, 255>> ->
      <<68, 98, 87, 170, 231, 202, 246, 8, 134, 180, 221, 197, 59, 219, 84, 137, 0, 181, 68, 12, 221, 201, 9, 163, 77, 5, 23, 176, 152, 135, 64, 212>>
    [] c = <<0, 1, 255, 1, 0>> ->
      <<38, 219, 78, 9, 227, 55, 152, 116, 218, 131, 162, 8, 61, 220, 106, 186, 133, 28, 21, 233, 236, 90, 112, 192, 157, 130, 167, 202, 46, 164, 146, 237>>
    [] c = <<0, 1, 255, 1, 1>> ->
      <<197, 119, 141, 220, 226, 35, 234, 208, 127, 176, 34, 157, 95, 215, 132, 122, 64, 112, 99, 24, 228, 183, 165, 6, 189, 123, 170, 75, 74, 184, 45, 53>>
    [] c = <<0, 1, 255, 1, 255>> ->
      <<78, 165, 96, 238, 232, 106, 162, 163, 136, 114, 81, 12, 99, 62, 157, 196, 127, 162, 15, 236, 174, 2, 158, 216, 193, 51, 36, 104, 129, 171, 226, 116>>
    [] c = <<0, 1, 255, 255, 0>> ->
      <<11, 167, 169, 74, 7, 243, 69, 151, 182, 44, 61, 27, 245, 197, 116, 79, 54, 52, 48, 240, 242, 160, 239, 243, 181, 127, 149, 155, 0, 14, 202, 222>>
    [] c = <<0, 1, 255, 255, 1>> ->
      <<192, 232, 50, 80, 95, 254, 8, 193, 175, 208, 132, 165, 84, 197, 66, 61, 0, 41, 243, 223, 22, 160, 200, 88, 80, 249, 167, 243, 91, 18, 228, 123>>
    [] c = <<0, 1, 255, 255, 255>> ->
      <<250, 192, 71, 102, 110, 64, 145, 110, 68, 187, 181, 242, 92, 253, 59, 227, 133, 89, 22, 192, 167, 206, 44, 65, 122, 231, 247, 101, 252, 6, 27, 126>>
    [] c = <<0, 255, 0, 0, 0>> ->
      <<122, 42, 88, 110, 207, 138, 214, 128, 6, 67, 170, 2, 253, 78, 10, 145, 41, 79, 150, 72, 224, 175, 214, 112, 7, 253, 110, 201, 183, 24, 40, 20>>
    [] c = <<0, 255, 0, 0, 1>> ->
      <<216, 173, 61, 145, 123, 27, 63, 55, 33, 240, 171, 226, 100, 54, 104, 63, 77, 215, 31, 218, 220, 239, 47, 100, 53, 66, 158, 104, 248, 118, 251, 130>>
    [] c = <<0, 255, 0, 0, 255>> ->
      <<246, 59, 166, 24, 165, 235, 92, 203, 191, 12, 220, 79, 131, 59, 220, 81, 180, 152, 45, 248, 186, 187, 64, 107, 140, 181, 59, 207, 9, 120, 210, 168>>
    [] c = <<0, 255, 0, 1, 0>> ->
      <<97, 216, 42, 125, 189, 22, 136, 202, 172, 190, 188, 146, 101, 63, 205, 201, 2, 42, 242, 135, 10, 22, 236, 122, 146, 4, 29, 182, 196, 185, 185, 108>>
    [] c = <<0, 255, 0, 1, 1>> ->
      <<199, 57, 216, 125, 174, 36, 67, 137, 95, 19, 205, 17, 132, 142, 62, 0, 26, 95, 169, 187, 5, 69, 211, 172, 61, 145, 58, 130, 73, 157, 222, 189>>
    [] c = <<0, 255, 0, 1, 255>> ->
      <<69, 185, 218, 3, 26, 48, 143, 241, 54, 215, 64, 220, 100, 89, 85, 200, 172, 216, 46, 216, 238, 116, 9, 176, 47, 201, 175, 59, 175, 183, 1, 185>>
    [] c = <<0, 255, 0, 255, 0>> ->
      <<195, 230, 202, 16, 157, 9, 33, 174, 44, 65, 16, 87, 11, 170, 125, 165, 8, 109, 65, 244, 69, 215, 240, 28, 181, 52, 67, 134, 132, 166, 144, 127>>
    [] c = <<0, 255, 0, 255, 1>> ->
      <<223, 216, 213, 25, 206, 36, 221, 78, 121, 132, 237, 142, 49, 104, 175, 119, 2, 201, 141, 149, 87, 202, 148, 8, 217, 223, 221, 181, 67, 7, 32, 109>>
    [] c = <<0, 255, 0, 255, 255>> ->
      <<165, 209, 155, 117, 71, 23, 163, 3, 184, 158, 141, 181, 73, 143, 13, 88, 227, 131, 79, 201, 32, 84, 91, 210, 225, 99, 180, 61, 175, 245, 52, 183>>
    [] c = <<0, 255, 1, 0, 0>> ->
      <<51, 166, 142, 177, 1, 254, 233, 143, 106, 184, 126, 118, 200, 175, 59, 228, 200, 115, 238, 133, 143, 125, 241, 160, 151, 21, 31, 222, 73, 215, 215, 175>>
    [] c = <<0, 255, 1, 0, 1>> ->
      <<167, 211, 156, 103, 201, 121, 117, 215, 57, 235, 24, 144, 233, 97, 205, 41, 180, 25, 255, 119, 97, 49, 248, 79, 164, 248, 119, 131, 34, 203, 194, 163>>
    [] c = <<0, 255, 1, 0, 255>> ->
      <<116, 171, 197, 3, 228, 56, 235, 228, 220, 143, 141, 125, 42, 76, 19, 160, 55, 91, 238, 45, 105, 59, 30, 2, 79, 220, 115, 102, 65, 197, 104, 219>>
    [] c = <<0, 255, 1, 1, 0>> ->
      <<178, 63, 97, 202, 44, 198, 101, 213, 148, 179, 171, 148, 117, 231, 47, 76, 168, 160, 216, 106, 90, 190, 170, 133, 249, 207, 246, 70, 109, 242, 59, 166>>
    [] c = <<0, 255, 1, 1, 1>> ->
      <<39, 206, 91, 118, 103, 238, 216, 51, 19, 205, 51, 211, 251, 110, 71, 229, 41, 17, 126, 27, 98, 195, 43, 156, 11, 16, 66, 255, 176, 240, 193, 143>>
    [] c = <<0, 255, 1, 1, 255>> ->
      <<144, 14, 242, 246, 152, 108, 220, 53, 61, 203, 194, 122, 202, 215, 221, 61, 59, 126, 111, 255, 77, 68, 237, 182, 113, 82, 150, 160, 12, 77, 21, 73>>
    [] c = <<0, 255, 1, 255, 0>> ->
      <<87, 53, 163, 48, 163, 152, 247, 200, 79, 79, 52, 19, 47, 193, 163, 118, 148, 56, 93, 5, 71, 20, 23, 152, 173, 232, 114, 85, 201, 179, 64, 110>>
    [] c = <<0, 255, 1, 255, 1>> ->
      <<186, 234, 177, 187, 44, 85, 83, 1, 67, 160, 155, 234, 231, 142, 239, 178, 255, 230, 233, 170, 106, 35, 3, 114, 33, 172, 68, 238, 38, 101, 82, 253>>
    [] c = <<0, 255, 1, 255, 255>> ->
      <<28, 142, 129, 79, 144, 99, 204, 137, 70, 252, 245, 42, 235, 142, 195, 99, 216, 218, 202, 178, 52, 124, 71, 160, 44, 180, 9, 210, 39, 122, 201, 208>>
    [] c = <<0, 255, 255, 0, 0>> ->
      <<173, 89, 61, 7, 140, 33, 92, 112, 121, 232, 111, 87, 61, 225, 23, 92, 178, 59, 234, 239, 228, 3, 144, 3, 119, 180, 205, 141, 117, 154, 20, 80>>
    [] c = <<0, 255, 255, 0, 1>> ->
      <<110, 197, 94, 23, 199, 238, 96, 221, 87, 64, 113, 244, 245, 29, 196, 183, 242, 199, 227, 148, 57, 41, 200, 123, 22, 45, 26, 231, 93, 255, 13, 193>>
    [] c = <<0, 255, 255, 0, 255>> ->
      <<42, 241, 16, 127, 171, 38, 100, 75, 166, 13, 178, 177, 10, 147, 51, 230, 21, 9, 192, 191, 23, 90, 203, 18, 167, 190, 135, 167, 215, 48, 138, 2>>
    [] c = <<0, 255, 255, 1, 0>> ->
      <<243, 2, 96, 143, 110, 63, 214, 255, 127, 239, 199, 205, 36, 145, 41, 185, 195, 50, 49, 163, 243, 215, 184, 244, 42, 89, 182, 209, 240, 173, 124, 32>>
    [] c = <<0, 255, 255, 1, 1>> ->
      <<4, 237, 142, 173, 30, 238, 129, 253, 90, 70, 169, 161, 113, 213, 121, 96, 219, 44, 16, 156, 156, 123, 53, 72, 217, 33, 157, 207, 154, 71, 25, 79>>
    [] c = <<0, 255, 255, 1, 255>> ->
      <<228, 222, 143, 74, 14, 0, 20, 110, 102, 213, 104, 16, 46, 82, 165, 73, 73, 224, 228, 130, 29, 64, 65, 223, 7, 168, 126, 180, 110, 137, 132, 100>>
    [] c = <<0, 255, 255, 255, 0>> ->
      <<64, 173, 75, 145, 119, 238, 199, 73, 14, 70, 240, 55, 189, 18, 217, 70, 193, 34, 135, 83, 78, 136, 39, 24, 33, 102, 135, 103, 253, 235, 160, 97>>
    [] c = <<0, 255, 255, 255, 1>> ->
      <<133, 231, 190, 58, 253, 93, 253, 72, 38, 151, 145, 48, 11, 155, 41, 185, 197, 253, 157, 190, 22, 199, 249, 102, 22, 240, 239, 162, 250, 55, 31, 217>>
    [] c = <<0, 255, 255, 255, 255>> ->
      <<68, 71, 133, 61, 55, 205, 219, 177, 164, 58, 4, 23, 239, 165, 94, 214, 146, 158, 251, 210, 106, 149, 78, 182, 185, 78, 241, 33, 110, 86, 79, 161>>
    [] c = <<1, 0, 0, 0, 0>> ->
      <<149, 123, 136, 177, 39, 48, 230, 70, 224, 243, 61, 54, 24, 183, 125, 250, 87, 158, 130, 49, 227, 197, 156, 113, 4, 190, 113, 101, 97, 28, 128, 39>>
    [] c = <<1, 0, 0, 0, 1>> ->
      <<161, 203, 32, 71, 13, 137, 135, 79, 51, 56, 56, 2, 199, 45, 60, 39, 160, 102, 142, 191, 253, 129, 147, 71, 5, 171, 12, 252, 191, 26, 30, 58>>
    [] c = <<1, 0, 0, 0, 255>> ->
      <<100, 107, 37, 103, 152, 74, 156, 219, 88, 0, 122, 11, 1, 227, 187, 55, 63, 211, 7, 67, 113, 39, 96, 252, 91, 107, 185, 201, 199, 16, 52, 172>>
    [] c = <<1, 0, 0, 1, 0>> ->
      <<0, 41, 77, 127, 76, 208, 16, 197, 47, 203, 103, 78, 91, 114, 243, 31, 73, 200, 237, 143, 209, 52, 62, 123, 57, 114, 104, 253, 20, 240, 215, 174>>
    [] c = <<1, 0, 0, 1, 1>> ->
      <<133, 142, 24, 167, 4, 113, 127, 248, 101, 144, 197, 25, 62, 207, 143, 47, 176, 255, 98, 19, 172, 78, 114, 105, 194, 50, 117, 70, 129, 202, 112, 33>>
    [] c = <<1, 0, 0, 1, 255>> ->
      <<88, 21, 2, 140, 160, 3, 75, 36, 201, 24, 98, 43, 224, 79, 17, 203, 46, 110, 154, 158, 149, 23, 22, 174, 70, 185, 125, 102, 229, 126, 113, 59>>
    [] c = <<1, 0, 0, 255, 0>> ->
      <<36, 86, 233, 125, 85, 79, 159, 105, 47, 181, 179, 30, 30, 60, 255, 161, 198, 189, 140, 124, 62, 135, 152, 184, 225, 20, 87, 55, 170, 6, 44, 158>>
    [] c = <<1, 0, 0, 255, 1>> ->
      <<229, 158, 152, 11, 174, 204, 79, 123, 176, 2, 39, 70, 39, 116, 141, 80, 34, 43, 136, 248, 3, 86, 38, 252, 188, 231, 7, 206, 158, 149, 84, 71>>
    [] c = <<1, 0, 0, 255, 255>> ->
      <<240, 103, 152, 93, 53, 45, 45, 166, 223, 174, 244, 132, 74, 102, 208, 108, 83, 113, 236, 189, 149, 48, 164, 209, 149, 172, 89, 159, 239, 139, 52, 39>>
    [] c = <<1, 0, 1, 0, 0>> ->
      <<156, 157, 140, 106, 91, 223, 223, 131, 33, 188, 166, 67, 176, 194, 164, 34, 105, 253, 190, 95, 24, 19, 118, 244, 47, 215, 133, 104, 65, 240, 51, 63>>
    [] c = <<1, 0, 1, 0, 1>> ->
      <<164, 233, 22, 125, 193, 26, 91, 139, 167, 224, 156, 133, 186, 253, 234, 11, 110, 11, 57, 156, 229, 0, 134, 84, 85, 9, 1, 112, 80, 179, 48, 151>>
    [] c = <<1, 0, 1, 0, 255>> ->
      <<206, 88, 25, 68, 72, 87, 175, 116, 81, 151, 64, 227, 66, 30, 86, 3, 161, 248, 227, 185, 94, 183, 71, 214, 131, 98, 113, 206, 250, 231, 119, 34>>
    [] c = <<1, 0, 1, 1, 0>> ->
      <<246, 19, 5, 156, 251, 162, 207, 18, 125, 216, 100, 77, 242, 64, 123, 4, 114, 136, 43, 91, 230, 103, 73, 151, 200, 224, 254, 161, 18, 153, 178, 15>>
    [] c = <<1, 0, 1, 1, 1>> ->
      <<75, 210, 45, 167, 209, 59, 190, 111, 21, 153, 20, 246, 179, 143, 209, 196, 83, 14, 132, 181, 1, 18, 238, 171, 214, 155, 153, 155, 114, 24, 228, 195>>
    [] c = <<1, 0, 1, 1, 255>> ->
      <<40, 123, 187, 111, 40, 104, 245, 98, 157, 231, 6, 180, 31, 254, 160, 69, 21, 83, 81, 121, 174, 54, 190, 192, 97, 106, 123, 206, 153, 208, 235, 25>>
    [] c = <<1, 0, 1, 255, 0>> ->
      <<230, 69, 17, 19, 10, 142, 223, 140, 232, 84, 0, 27, 41, 102, 167, 43, 73, 250, 251, 86, 54, 57, 212, 70, 239, 230, 12, 38, 243, 68, 125, 65>>
    [] c = <<1, 0, 1, 255, 1>> ->
      <<109, 199, 30, 115, 221, 147, 29, 12, 129, 197, 59, 9, 125, 154, 245, 139, 69, 166, 152, 231, 65, 9, 141, 124, 70, 243, 242, 203, 130, 176, 200, 55>>
    [] c = <<1, 0, 1, 255, 255>> ->
      <<195, 64, 128, 55, 11, 97, 57, 191, 118, 106, 106, 3, 252, 146, 179, 69, 227, 156, 150, 97, 234, 238, 15, 144, 20, 185, 5, 226, 64, 219, 47, 131>>
    [] c = <<1, 0, 255, 0, 0>> ->
      <<14, 151, 253, 182, 38, 131, 181, 118, 182, 163, 216, 49, 16, 118, 245, 98, 161, 162, 167, 34, 75, 36, 149, 62, 48, 86, 161, 3, 234, 45, 244, 27>>
    [] c = <<1, 0, 255, 0, 1>> ->
      <<66, 12, 220, 120, 212, 230, 74, 142, 182, 90, 145, 161, 61, 8, 168, 222, 32, 66, 169, 205, 9, 212, 148, 169, 214, 37, 31, 56, 89, 245, 46, 87>>
    [] c = <<1, 0, 255, 0, 255>> ->
      <<209, 214, 48, 12, 186, 190, 241, 61, 151, 153, 191, 5, 78, 210, 187, 59, 11, 74, 104, 97, 52, 201, 55, 152, 102, 5, 170, 225, 209, 216, 187, 6>>
    [] c = <<1, 0, 255, 1, 0>> ->
      <<8, 223, 3, 17, 37, 235, 93, 206, 171, 118, 155, 110, 148, 47, 247, 164, 1, 220, 199, 138, 152, 206, 12, 87, 39, 91, 190, 66, 122, 70, 94, 66>>
    [] c = <<1, 0, 255, 1, 1>> ->
      <<115, 16, 236, 160, 185, 187, 49, 53, 16, 220, 127, 43, 140, 62, 151, 227, 10, 177, 219, 205, 18, 228, 147, 124, 52, 32, 0, 97, 219, 70, 75, 71>>
    [] c = <<1, 0, 255, 1, 255>> ->
      <<211, 148, 109, 191, 191, 124, 48, 66, 249, 42, 79, 225, 13, 246, 87, 170, 85, 77, 84, 119, 180, 136, 136, 143, 50, 141, 229, 212, 254, 77, 232, 177>>
    [] c = <<1, 0, 255, 255, 0>> ->
      <<146, 92, 255, 223, 90, 241, 107, 28, 114, 107, 241, 178, 217, 167, 98, 19, 178, 160, 221, 6, 170, 218, 112, 103, 224, 210, 126, 14, 218, 105, 217, 107>>
    [] c = <<1, 0, 255, 255, 1>> ->
      <<70, 150, 10, 53, 148, 217, 209, 51, 105, 219, 111, 190, 74, 20, 123, 148, 133, 33, 124, 106, 84, 149, 171, 26, 239, 104, 214, 101, 171, 31, 78, 65>>
    [] c = <<1, 0, 255, 255, 255>> ->
      <<46, 3, 88, 204, 224, 233, 39, 52, 36, 116, 112, 145, 250, 22, 189, 76, 42, 148, 150, 148, 192, 19, 241, 175, 14, 187, 185, 227, 178, 103, 88, 253>>
    [] c = <<1, 1, 0, 0, 0>> ->
      <<179, 132, 70, 52, 118, 45, 142, 7, 84, 115, 252, 28, 215, 116, 208, 242, 81, 198, 81, 46, 39, 230, 126, 67, 231, 185, 174, 105, 239, 255, 86, 243>>
    [] c = <<1, 1, 0, 0, 1>> ->
      <<222, 53, 75, 172, 28, 103, 7, 58, 135, 220, 78, 217, 182, 117, 40, 115, 115, 228, 105, 140, 223, 22, 139, 128, 59, 41, 241, 34, 227, 137, 38, 24>>
    [] c = <<1, 1, 0, 0, 255>> ->
      <<9, 2, 51, 44, 58, 31, 190, 200, 214, 22, 39, 247, 184, 61, 36, 201, 159, 168, 60, 169, 211, 167, 109, 126, 104, 151, 140, 45, 229, 247, 170, 55>>
    [] c = <<1, 1, 0, 1, 0>> ->
      <<40, 51, 191, 209, 42, 236, 153, 12, 227, 234, 10, 37, 55, 146, 2, 230, 85, 28, 221, 77, 226, 70, 174, 240, 42, 192, 157, 224, 99, 98, 224, 211>>
    [] c = <<1, 1, 0, 1, 1>> ->
      <<145, 59, 215, 62, 105, 127, 26, 156, 47, 137, 123, 7, 189, 1, 222, 148, 18, 178, 46, 252, 214, 40, 75, 125, 254, 216, 92, 57, 207, 167, 171, 59>>
    [] c = <<1, 1, 0, 1, 255>> ->
      <<111, 106, 217, 159, 254, 179, 186, 175, 134, 112, 95, 162, 230, 202, 221, 114, 76, 35, 152, 228, 88, 4, 106, 206, 26, 66, 17, 201, 166, 48, 99, 89>>
    [] c = <<1, 1, 0, 255, 0>> ->
      <<7, 90, 95, 41, 243, 26, 168, 225, 173, 95, 212, 230, 242, 215, 139, 72, 162, 66, 105, 46, 22, 25, 181, 202, 57, 235, 181, 182, 32, 103, 96, 83>>
    [] c = <<1, 1, 0, 255, 1>> ->
      <<216, 16, 32, 64, 140, 204, 122, 75, 7, 5, 37, 142, 250, 66, 48, 154, 14, 210, 109, 14, 73, 19, 206, 45, 27, 198, 83, 172, 113, 202, 175, 159>>
    [] c = <<1, 1, 0, 255, 255>> ->
      <<139, 16, 118, 17, 109, 131, 4, 40, 43, 177, 216, 178, 56, 116, 128, 116, 33, 251, 162, 211, 211, 107, 222, 75, 231, 141, 95, 54, 70, 66, 214, 0>>
    [] c = <<1, 1, 1, 0, 0>> ->
      <<222, 119, 45, 158, 148, 66, 165, 110, 5, 246, 44, 146, 135, 164, 210, 139, 204, 237, 65, 204, 82, 121, 53, 210, 106, 78, 181, 229, 217, 75, 61, 181>>
    [] c = <<1, 1, 1, 0, 1>> ->
      <<170, 162, 197, 147, 50, 90, 110, 148, 57, 17, 223, 213, 59, 114, 92, 40, 166, 139, 39, 147, 135, 101, 200, 61, 190, 46, 200, 120, 39, 240, 2, 211>>
    [] c = <<1, 1, 1, 0, 255>> ->
      <<238, 135, 197, 79, 196, 211, 82, 63, 3, 27, 206, 177, 77, 152, 27, 202, 112, 30, 138, 156, 148, 57, 70, 158, 18, 80, 42, 250, 221, 255, 63, 163>>
    [] c = <<1, 1, 1, 1, 0>> ->
      <<73, 154, 224, 96, 12, 100, 118, 91, 48, 154, 179, 207, 235, 226, 42, 112, 248, 229, 30, 121, 85, 220, 121, 29, 1, 217, 20, 154, 32, 214, 187, 213>>
    [] c = <<1, 1, 1, 1, 1>> ->
      <<55, 122, 35, 245, 44, 107, 53, 118, 150, 35, 140, 51, 24, 246, 119, 160, 130, 221, 52, 48, 187, 102, 145, 4, 43, 213, 80, 165, 205, 162, 142, 187>>
    [] c = <<1, 1, 1, 1, 255>> ->
      <<134, 55, 210, 152, 30, 135, 59, 240, 94, 122, 133, 0, 216, 222, 1, 64, 98, 72, 220, 143, 124, 56, 251, 190, 9, 202, 241, 152, 120, 234, 193, 218>>
    [] c = <<1, 1, 1, 255, 0>> ->
      <<80, 131, 40, 29, 232, 95, 24, 198, 169, 164, 96, 245, 196, 22, 116, 147, 160, 103, 179, 8, 28, 0, 43, 76, 143, 108, 100, 148, 22, 127, 195, 208>>
    [] c = <<1, 1, 1, 255, 1>> ->
      <<7, 132, 2, 147, 151, 68, 165, 147, 19, 52, 251, 102, 77, 149, 138, 178, 206, 37, 142, 47, 196, 9, 161, 179, 115, 91, 112, 168, 225, 161, 102, 168>>
    [] c = <<1, 1, 1, 255, 255>> ->
      <<225, 240, 8, 54, 92, 5, 34, 120, 57, 216, 88, 201, 103, 105, 117, 86, 220, 221, 96, 184, 133, 243, 109, 24, 245, 81, 80, 92, 143, 251, 71, 214>>
    [] c = <<1, 1, 255, 0, 0>> ->
      <<217, 20, 153, 86, 47, 163, 224, 93, 98, 132, 254, 163, 149, 140, 134, 224, 85, 157, 70, 101, 74, 91, 85, 3, 26, 60, 254, 27, 58, 199, 154, 146>>
    [] c = <<1, 1, 255, 0, 1>> ->
      <<30, 0, 34, 60, 115, 44, 70, 56, 171, 242, 120, 89, 124, 244, 123, 67, 66, 39, 76, 58, 79, 3, 2, 77, 121, 80, 163, 36, 157, 252, 173, 5>>
    [] c = <<1, 1, 255, 0, 255>> ->
      <<143, 57, 234, 192, 254, 25, 74, 114, 15, 29, 88, 146, 81, 179, 206, 47, 2, 54, 67, 77, 192, 164, 196, 43, 64, 152, 34, 252, 22, 6, 63, 153>>
    [] c = <<1, 1, 255, 1, 0>> ->
      <<106, 236, 105, 181, 91, 210, 103, 32, 162, 205, 191, 208, 30, 51, 88, 112, 228, 82, 186, 59, 1, 243, 84, 110, 104, 3, 30, 231, 202, 65, 26, 229>>
    [] c = <<1, 1, 255, 1, 1>> ->
      <<122, 141, 58, 22, 50, 245, 127, 68, 50, 17, 212, 176, 231, 85, 36, 248, 173, 44, 163, 101, 164, 231, 163, 214, 72, 108, 249, 206, 59, 247, 139, 247>>
    [] c = <<1, 1, 255, 1, 255>> ->
      <<101, 55, 61, 244, 3, 236, 201, 251, 24, 4, 23, 235, 147, 191, 0, 191, 117, 184, 218, 2, 161, 254, 35, 77, 230, 166, 82, 246, 19, 91, 23, 113>>
    [] c = <<1, 1, 255, 255, 0>> ->
      <<112, 242, 70, 16, 254, 169, 115, 69, 95, 230, 222, 237, 227, 103, 109, 21, 171, 12, 174, 18, 1, 178, 101, 151, 161, 237, 102, 212, 72, 62, 8, 186>>
    [] c = <<1, 1, 255, 255, 1>> ->
      <<106, 116, 50, 203, 167, 250, 193, 61, 1, 41, 60, 232, 245, 160, 76, 236, 157, 234, 25, 150, 10, 204, 214, 217, 109, 145, 86, 19, 174, 16, 9, 172>>
    [] c = <<1, 1, 255, 255, 255>> ->
      <<38, 200, 250, 51, 150, 245, 100, 141, 133, 137, 81, 253, 234, 237, 162, 55, 13, 55, 133, 250, 80, 57, 82, 61, 170, 128, 34, 80, 174, 231, 42, 228>>
    [] c = <<1, 255, 0, 0, 0>> ->
      <<243, 20, 120, 112, 12, 26, 80, 96, 60, 181, 220, 239, 94, 151, 224, 152, 96, 152, 211, 221, 116, 104, 232, 11, 46, 215, 232, 54, 34, 234, 107, 32>>
    [] c = <<1, 255, 0, 0, 1>> ->
      <<229, 0, 19, 22, 64, 162, 144, 247, 60, 76, 78, 40, 238, 164, 222, 71, 165, 236, 14, 194, 65, 13, 163, 112, 224, 110, 179, 179, 223, 34, 118, 98>>
    [] c = <<1, 255, 0, 0, 255>> ->
      <<73, 19, 111, 194, 183, 231, 19, 109, 2, 65, 19, 250, 79, 230, 202, 180, 145, 212, 216, 84, 4, 73, 230, 213, 149, 111, 166, 70, 143, 243, 250, 33>>
    [] c = <<1, 255, 0, 1, 0>> ->
      <<90, 125, 87, 188, 2, 245, 143, 120, 252, 144, 37, 112, 52, 141, 241, 125, 242, 16, 236, 193, 184, 44, 10, 95, 31, 226, 9, 160, 155, 110, 180, 208>>
    [] c = <<1, 255, 0, 1, 1>> ->
      <<107, 110, 244, 158, 188, 72, 234, 251, 253, 218, 189, 142, 81, 118, 170, 129, 242, 29, 253, 16, 175, 21, 124, 168, 142, 155, 130, 232, 0, 211, 241, 141>>
    [] c = <<1, 255, 0, 1, 255>> ->
      <<239, 231, 240, 40, 168, 45, 78, 99, 250, 220, 153, 234, 109, 42, 62, 164, 106, 204, 4, 196, 17, 99, 3, 173, 44, 168, 85, 60, 94, 7, 223, 143>>
    [] c = <<1, 255, 0, 255, 0>> ->
      <<150, 101, 147, 200, 6, 234, 58, 248, 166, 252, 173, 222, 251, 96, 178, 41, 188, 207, 251, 15, 234, 191, 141, 130, 14, 35, 12, 138, 247, 233, 179, 44>>
    [] c = <<1, 255, 0, 255, 1>> ->
      <<18, 225, 208, 7, 226, 165, 159, 43, 90, 209, 2, 103, 74, 104, 183, 244, 179, 247, 106, 212, 225, 6, 79, 138, 22, 30, 141, 75, 38, 131, 80, 159>>
    [] c = <<1, 255, 0, 255, 255>> ->
      <<114, 179, 68, 99, 12, 1, 252, 140, 42, 137, 91, 14, 209, 68, 75, 68, 23, 77, 207, 18, 162, 238, 72, 141, 76, 186, 136, 150, 15, 131, 238, 239>>
    [] c = <<1, 255, 1, 0, 0>> ->
      <<179, 39, 241, 86, 41, 35, 94, 56, 225, 25, 141, 131, 236, 180, 206, 170, 129, 113, 132, 223, 1, 149, 26, 118, 17, 10, 133, 161, 120, 108, 122, 221>>
    [] c = <<1, 255, 1, 0, 1>> ->
      <<197, 219, 230, 54, 8, 246, 169, 219, 152, 126, 224, 5, 168, 139, 173, 137, 34, 35, 203, 130, 27, 227, 230, 226, 245, 44, 36, 44, 178, 186, 222, 227>>
    [] c = <<1, 255, 1, 0, 255>> ->
      <<224, 84, 75, 103, 23, 57, 21, 32, 182, 246, 36, 30, 153, 26, 252, 165, 30, 2, 140, 42, 197, 182, 247, 174, 250, 242, 39, 179, 63, 102, 41, 93>>
    [] c = <<1, 255, 1, 1, 0>> ->
      <<71, 245, 252, 79, 143, 227, 76, 82, 233, 9, 68, 217, 199, 131, 5, 156, 159, 129, 130, 14, 188, 66, 249, 187, 182, 49, 117, 148, 56, 121, 216, 54>>
    [] c = <<1, 255, 1, 1, 1>> ->
      <<207, 163, 181, 85, 77, 208, 136, 92, 43, 192, 249, 64, 60, 5, 112, 177, 230, 203, 181, 17, 227, 68, 92, 193, 69, 136, 12, 3, 188, 80, 110, 241>>
    [] c = <<1, 255, 1, 1, 255>> ->
      <<223, 197, 222, 74, 195, 88, 182, 115, 251, 127, 93, 97, 16, 42, 119, 1, 39, 133, 73, 174, 37, 248, 164, 182, 104, 219, 162, 136, 64, 27, 64, 161>>
    [] c = <<1, 255, 1, 255, 0>> ->
      <<246, 20, 149, 39, 26, 224, 57, 161, 18, 21, 217, 120, 119, 57, 25, 75, 229, 134, 230, 198, 80, 64, 234, 234, 216, 120, 25, 252, 215, 193, 136, 76>>
    [] c = <<1, 255, 1, 255, 1>> ->
      <<3, 188, 231, 178, 171, 163, 84, 95, 245, 110, 38, 161, 11, 171, 29, 152, 125, 192, 193, 203, 120, 162, 227, 12, 5, 162, 49, 18, 224, 168, 3, 76>>
    [] c = <<1, 255, 1, 255, 255>> ->
      <<233, 79, 161, 209, 7, 56, 195, 202, 201, 30, 195, 208, 247, 115, 148, 247, 234, 159, 18, 60, 237, 187, 46, 243, 180, 31, 141, 195, 207, 102, 131, 201>>
    [] c = <<1, 255, 255, 0, 0>> ->
      <<199, 176, 229, 117, 168, 163, 108, 48, 231, 121, 10, 84, 249, 159, 153, 189, 233, 2, 41, 147, 36, 31, 229, 185, 173, 134, 253, 95, 161, 147, 157, 29>>
    [] c = <<1, 255, 255, 0, 1>> ->
      <<100, 161, 130, 19, 85, 194, 78, 166, 93, 159, 63, 107, 206, 110, 152, 66, 165, 39, 220, 184, 56, 22, 83, 172, 106, 195, 101, 103, 87, 8, 179, 70>>
    [] c = <<1, 255, 255, 0, 255>> ->
      <<178, 248, 238, 177, 177, 126, 181, 212, 225, 94, 187, 245, 31, 134, 166, 3, 185, 168, 10, 157, 94, 91, 75, 252, 213, 128, 142, 175, 100, 245, 6, 65>>
    [] c = <<1, 255, 255, 1, 0>> ->
      <<16, 113, 61, 202, 222, 14, 194, 235, 221, 1, 54, 110, 151, 142, 75, 174, 102, 95, 14, 249, 243, 91, 249, 245, 173, 237, 114, 232, 8, 164, 232, 67>>
    [] c = <<1, 255, 255, 1, 1>> ->
      <<73, 53, 16, 242, 39, 223, 117, 130, 167, 217, 233, 145, 115, 235, 202, 127, 164, 114, 254, 65, 59, 237, 243, 30, 182, 16, 227, 255, 176, 137, 48, 16>>
    [] c = <<1, 255, 255, 1, 255>> ->
      <<71, 165, 156, 163, 28, 234, 192, 114, 180, 86, 174, 209, 138, 84, 216, 209, 58, 46, 169, 57, 181, 176, 69, 247, 176, 5, 29, 174, 172, 213, 19, 39>>
    [] c = <<1, 255, 255, 255, 0>> ->
      <<200, 110, 20, 28, 80, 60, 160, 215, 47, 5, 183, 14, 64, 171, 120, 207, 113, 199, 158, 248, 53, 161, 29, 53, 237, 85, 231, 200, 91, 16, 199, 11>>
    [] c = <<1, 255, 255, 255, 1>> ->
      <<241, 223, 169, 61, 159, 153, 217, 42, 210, 126, 179, 120, 63, 238, 240, 183, 13, 159, 226, 20, 183, 78, 188, 166, 26, 69, 21, 33, 195, 249, 130, 211>>
    [] c = <<1, 255, 255, 255, 255>> ->
      <<131, 53, 161, 19, 203, 202, 125, 179, 134, 31, 114, 18, 231, 47, 232, 163, 176, 134, 123, 70, 170, 7, 157, 139, 122, 202, 19, 98, 75, 133, 23, 72>>
    [] c = <<255, 0, 0, 0, 0>> ->
      <<222, 207, 222, 77, 196, 188, 97, 80, 86, 202, 76, 58, 59, 181, 175, 31, 238, 23, 36, 235, 118, 14, 161, 81, 13, 174, 50, 234, 10, 118, 192, 47>>
    [] c = <<255, 0, 0, 0, 1>> ->
      <<33, 132, 242, 46, 85, 50, 80, 255, 57, 253, 137, 252, 70, 75, 198, 212, 229, 51, 20, 113, 156, 12, 196, 77, 32, 125, 98, 195, 69, 130, 23, 189>>
    [] c = <<255, 0, 0, 0, 255>> ->
      <<20, 28, 81, 37, 164, 75, 81, 77, 234, 31, 221, 173, 6, 135, 223, 225, 19, 88, 53, 172, 53, 243, 80, 62, 101, 185, 8, 164, 177, 72, 111, 176>>
    [] c = <<255, 0, 0, 1, 0>> ->
      <<115, 195, 112, 227, 113, 98, 23, 129, 7, 157, 174, 219, 134, 77, 68, 20, 221, 8, 201, 170, 209, 104, 251, 66, 117, 218, 165, 89, 223, 90, 122, 173>>
    [] c = <<255, 0, 0, 1, 1>> ->
      <<223, 84, 174, 98, 241, 183, 215, 26, 178, 98, 217, 39, 153, 208, 73, 185, 47, 209, 247, 195, 185, 193, 11, 32, 90, 242, 255, 204, 110, 150, 180, 13>>
    [] c = <<255, 0, 0, 1, 255>> ->
      <<115, 223, 134, 244, 193, 18, 194, 177, 167, 77, 114, 99, 41, 141, 139, 210, 161, 118, 123, 154, 59, 157, 7, 239, 156, 230, 195, 36, 138, 208, 147, 252>>
    [] c = <<255, 0, 0, 255, 0>> ->
      <<26, 122, 170, 36, 246, 134, 82, 20, 133, 217, 162, 231, 195, 55, 153, 82, 51, 52, 137, 67, 170, 3, 124, 186, 247, 56, 145, 82, 147, 212, 36, 252>>
    [] c = <<255, 0, 0, 255, 1>> ->
      <<103, 180, 232, 26, 136, 189, 214, 0, 93, 157, 66, 63, 90, 192, 139, 40, 70, 123, 158, 67, 103, 190, 98, 21, 87, 194, 168, 47, 61, 168, 85, 39>>
    [] c = <<255, 0, 0, 255, 255>> ->
      <<208, 89, 242, 37, 177, 193, 116, 107, 137, 143, 215, 217, 196, 107, 92, 27, 179, 193, 116, 66, 49, 110, 7, 252, 184, 149, 211, 150, 27, 48, 5, 198>>
    [] c = <<255, 0, 1, 0, 0>> ->
      <<245, 98, 7, 218, 213, 26, 182, 160, 82, 65, 198, 64, 241, 197, 78, 101, 217, 170, 45, 223, 130, 186, 99, 145, 75, 143, 57, 25, 207, 21, 223, 131>>
    [] c = <<255, 0, 1, 0, 1>> ->
      <<165, 160, 9, 179, 126, 57, 89, 201, 70, 132, 112, 48, 194, 149, 148, 14, 64, 149, 20, 64, 156, 249, 54, 118, 49, 243, 197, 164, 119, 124, 80, 220>>
    [] c = <<255, 0, 1, 0, 255>> ->
      <<190, 11, 138, 159, 151, 188, 156, 123, 66, 120, 167, 97, 82, 236, 82, 20, 89, 252, 62, 249, 239, 255, 110, 151, 82, 99, 107, 9, 94, 92, 39, 127>>
    [] c = <<255, 0, 1, 1, 0>> ->
      <<170, 24, 56, 253, 210, 130, 255, 34, 243, 203, 180, 33, 233, 111, 52, 168, 19, 191, 81, 87, 64, 62, 165, 153, 48, 225, 133, 102, 107, 255, 62, 235>>
    [] c = <<255, 0, 1, 1, 1>> ->
      <<67, 96, 19, 234, 68, 137, 55, 172, 149, 29, 212, 252, 24, 238, 145, 153, 32, 221, 88, 107, 190, 196, 77, 53, 230, 189, 8, 19, 37, 101, 7, 96>>
    [] c = <<255, 0, 1, 1, 255>> ->
      <<206, 50, 62, 158, 239, 93, 85, 105, 201, 75, 27, 131, 57, 185, 66, 202, 166, 103, 164, 213, 22, 94, 63, 51, 226, 56, 103, 213, 126, 156, 207, 34>>
    [] c = <<255, 0, 1, 255, 0>> ->
      <<178, 227, 36, 174, 183, 177, 144, 11, 63, 198, 85, 146, 176, 97, 240, 82, 46, 132, 119, 170, 64, 90, 18, 229, 126, 71, 234, 186, 208, 238, 135, 161>>
    [] c = <<255, 0, 1, 255, 1>> ->
      <<176, 165, 246, 203, 95, 75, 35, 50, 55, 191, 192, 89, 58, 37, 207, 164, 139, 191, 68, 73, 21, 162, 182, 73, 146, 81, 47, 48, 50, 85, 246, 191>>
    [] c = <<255, 0, 1, 255, 255>> ->
      <<37, 125, 36, 150, 1, 102, 213, 219, 20, 39, 199, 232, 27, 188, 5, 122, 233, 234, 227, 116, 172, 88, 43, 2, 55, 163, 213, 120, 155, 136, 218, 100>>
    [] c = <<255, 0, 255, 0, 0>> ->
      <<245, 67, 73, 172, 104, 157, 211, 99, 245, 185, 146, 209, 60, 187, 62, 202, 49, 122, 55, 113, 102, 244, 134, 200, 231, 231, 245, 48, 236, 172, 32, 247>>
    [] c = <<255, 0, 255, 0, 1>> ->
      <<222, 80, 101, 6, 43, 62, 127, 91, 218, 144, 127, 83, 191, 34, 51, 97, 89, 157, 149, 98, 227, 140, 225, 225, 52, 117, 175, 122, 199, 23, 145, 109>>
    [] c = <<255, 0, 255, 0, 255>> ->
      <<47, 66, 167, 26, 128, 17, 15, 159, 51, 130, 221, 245, 175, 6, 209, 170, 211, 42, 191, 198, 76, 234, 175, 222, 0, 95, 196, 84, 67, 223, 27, 66>>
    [] c = <<255, 0, 255, 1, 0>> ->
      <<47, 21, 212, 60, 119, 189, 111, 26, 50, 86, 153, 148, 167, 254, 205, 140, 106, 67, 93, 29, 33, 6, 169, 64, 188, 225, 118, 201, 196, 159, 120, 250>>
    [] c = <<255, 0, 255, 1, 1>> ->
      <<162, 16, 26, 158, 94, 181, 62, 26, 237, 86, 224, 139, 32, 139, 17, 219, 139, 22, 10, 225, 88, 183, 65, 37, 148, 246, 223, 198, 44, 49, 224, 154>>
    [] c = <<255, 0, 255, 1, 255>> ->
      <<240, 91, 29, 182, 82, 168, 107, 107, 236, 27, 228, 251, 50, 112, 141, 216, 137, 207, 132, 170, 91, 102, 107, 119, 131, 27, 149, 143, 219, 114, 151, 220>>
    [] c = <<255, 0, 255, 255, 0>> ->
      <<71, 175, 0, 165, 65, 245, 247, 100, 99, 132, 203, 233, 62, 113, 15, 52, 199, 155, 89, 9, 157, 73, 241, 115, 81, 106, 44, 93, 32, 237, 176, 192>>
    [] c = <<255, 0, 255, 255, 1>> ->
      <<188, 172, 81, 210, 28, 136, 23, 93, 155, 118, 59, 162, 2, 95, 18, 134, 182, 169, 62, 187, 27, 205, 10, 165, 196, 199, 164, 201, 181, 148, 247, 4>>
    [] c = <<255, 0, 255, 255, 255>> ->
      <<1, 167, 168, 27, 248, 134, 83, 0, 181, 32, 176, 208, 180, 135, 204, 164, 135, 89, 19, 80, 213, 74, 185, 159, 160, 63, 184, 101, 125, 246, 254, 228>>
    [] c = <<255, 1, 0, 0, 0>> ->
      <<46, 31, 44, 35, 68, 153, 243, 196, 30, 145, 221, 35, 90, 91, 66, 128, 198, 151, 198, 82, 10, 192, 88, 190, 170, 123, 23, 48, 74, 223, 137, 250>>
    [] c = <<255, 1, 0, 0, 1>> ->
      <<34, 104, 179, 62, 123, 60, 61, 123, 126, 63, 199, 134, 41, 48, 152, 180, 210, 95, 191, 131, 32, 182, 61, 107, 171, 20, 27, 86, 23, 242, 113, 60>>
    [] c = <<255, 1, 0, 0, 255>> ->
      <<38, 226, 246, 102, 91, 249, 0, 216, 7, 69, 136, 216, 2, 76, 130, 85, 59, 255, 110, 7, 188, 221, 93, 43, 236, 212, 74, 75, 152, 134, 76, 6>>
    [] c = <<255, 1, 0, 1, 0>> ->
      <<221, 222, 14, 50, 235, 100, 138, 129, 141, 5, 183, 67, 156, 147, 55, 73, 119, 88, 223, 253, 243, 76, 74, 160, 102, 179, 27, 107, 27, 72, 124, 47>>
    [] c = <<255, 1, 0, 1, 1>> ->
      <<118, 201, 211, 169, 254, 63, 16, 139, 199, 97, 229, 149, 187, 252, 71, 244, 88, 105, 230, 157, 227, 10, 77, 11, 209, 23, 121, 47, 9, 180, 42, 161>>
    [] c = <<255, 1, 0, 1, 255>> ->
      <<116, 239, 43, 109, 130, 20, 105, 125, 120, 243, 7, 96, 232, 70, 17, 142, 59, 153, 224, 155, 9, 196, 136, 154, 198, 197, 7, 13, 253, 16, 251, 183>>
    [] c = <<255, 1, 0, 255, 0>> ->
      <<206, 34, 17, 76, 204, 62, 231, 75, 98, 157, 190, 160, 202, 193, 22, 6, 244, 51, 151, 41, 70, 125, 223, 225, 91, 218, 157, 97, 63, 62, 209, 130>>
    [] c = <<255, 1, 0, 255, 1>> ->
      <<7, 44, 89, 197, 138, 237, 77, 235, 155, 39, 23, 193, 225, 79, 136, 33, 29, 18, 73, 83, 132, 135, 132, 238, 32, 96, 72, 25, 72, 16, 64, 214>>
    [] c = <<255, 1, 0, 255, 255>> ->
      <<121, 36, 210, 42, 15, 37, 169, 220, 160, 238, 218, 7, 81, 219, 154, 151, 67, 43, 127, 144, 136, 56, 240, 156, 70, 160, 132, 245, 51, 107, 60, 190>>
    [] c = <<255, 1, 1, 0, 0>> ->
      <<224, 55, 39, 66, 24, 186, 117, 238, 235, 143, 184, 66, 18, 243, 176, 223, 152, 222, 250, 226, 248, 165, 5, 50, 101, 9, 5, 188, 118, 109, 238, 56>>
    [] c = <<255, 1, 1, 0, 1>> ->
      <<20, 16, 172, 69, 158, 56, 241, 105, 108, 178, 188, 61, 165, 231, 196, 33, 222, 245, 10, 88, 188, 110, 148, 128, 221, 26, 172, 180, 248, 164, 228, 238>>
    [] c = <<255, 1, 1, 0, 255>> ->
      <<38, 168, 155, 80, 106, 39, 236, 25, 63, 235, 9, 206, 60, 133, 173, 43, 25, 174, 166, 221, 74, 224, 108, 32, 22, 190, 89, 141, 201, 124, 214, 145>>
    [] c = <<255, 1, 1, 1, 0>> ->
      <<142, 21, 104, 157, 89, 40, 98, 115, 151, 68, 122, 129, 242, 3, 63, 233, 190, 216, 28, 215, 139, 89, 31, 102, 154, 15, 107, 66, 90, 74, 1, 15>>
    [] c = <<255, 1, 1, 1, 1>> ->
      <<218, 231, 72, 99, 13, 240, 171, 1, 253, 56, 239, 174, 174, 164, 60, 114, 118, 150, 234, 74, 72, 172, 92, 72, 61, 152, 224, 123, 221, 222, 46, 255>>
    [] c = <<255, 1, 1, 1, 255>> ->
      <<183, 59, 248, 219, 74, 135, 226, 146, 244, 171, 138, 137, 34, 242, 234, 112, 9, 23, 158, 145, 58, 116, 69, 244, 37, 41, 200, 91, 151, 25, 12, 36>>
    [] c = <<255, 1, 1, 255, 0>> ->
      <<59, 73, 181, 114, 14, 83, 145, 130, 75, 53, 215, 141, 136, 197, 205, 215, 212, 46, 131, 156, 68, 62, 107, 236, 214, 109, 253, 7, 74, 100, 221, 192>>
    [] c = <<255, 1, 1, 255, 1>> ->
      <<32, 115, 62, 100, 230, 238, 157, 160, 237, 32, 55, 201, 161, 58, 119, 232, 28, 156, 227, 31, 128, 94, 23, 179, 142, 227, 58, 234, 11, 255, 88, 122>>
    [] c = <<255, 1, 1, 255, 255>> ->
      <<157, 196, 99, 142, 65, 173, 75, 234, 185, 253, 169, 112, 95, 254, 231, 110, 171, 246, 251, 15, 143, 143, 91, 5, 175, 173, 179, 234, 252, 165, 145, 36>>
    [] c = <<255, 1, 255, 0, 0>> ->
      <<96, 218, 99, 88, 52, 7, 66, 229, 221, 203, 59, 13, 239, 45, 118, 195, 118, 217, 228, 135, 87, 70, 165, 130, 71, 108, 143, 77, 21, 142, 41, 108>>
    [] c = <<255, 1, 255, 0, 1>> ->
      <<23, 67, 208, 107, 86, 158, 201, 56, 92, 75, 169, 14, 77, 7, 135, 58, 88, 18, 46, 219, 48, 240, 8, 239, 146, 85, 214, 68, 216, 139, 120, 30>>
    [] c = <<255, 1, 255, 0, 255>> ->
      <<253, 199, 93, 109, 134, 177, 209, 110, 254, 98, 200, 94, 33, 191, 48, 253, 4, 9, 203, 48, 228, 170, 234, 112, 188, 201, 161, 109, 209, 122, 237, 38>>
    [] c = <<255, 1, 255, 1, 0>> ->
      <<94, 84, 125, 72, 54, 150, 64, 201, 109, 253, 109, 208, 63, 147, 204, 251, 0, 72, 124, 231, 217, 156, 109, 18, 72, 153, 74, 13, 235, 74, 86, 242>>
    [] c = <<255, 1, 255, 1, 1>> ->
      <<178, 101, 202, 109, 191, 127, 21, 203, 119, 233, 219, 154, 108, 40, 12, 98, 3, 176, 97, 45, 94, 127, 183, 98, 34, 72, 67, 204, 36, 173, 169, 152>>
    [] c = <<255, 1, 255, 1, 255>> ->
      <<7, 22, 41, 233, 123, 105, 73, 180, 53, 11, 48, 229, 223, 35, 218, 39, 51, 179, 30, 57, 239, 65, 193, 252, 163, 249, 241, 78, 244, 34, 175, 2>>
    [] c = <<255, 1, 255, 255, 0>> ->
      <<117, 125, 218, 26, 27, 82, 114, 15, 215, 181, 143, 60, 0, 24, 176, 118, 186, 115, 120, 28, 12, 112, 195, 59, 207, 252, 29, 111, 185, 235, 63, 116>>
    [] c = <<255, 1, 255, 255, 1>> ->
      <<79, 96, 211, 181, 38, 160, 23, 1, 10, 227, 41, 206, 84, 46, 27, 146, 66, 37, 155, 250, 106, 195, 75, 94, 123, 88, 91, 203, 35, 120, 53, 102>>
    [] c = <<255, 1, 255, 255, 255>> ->
      <<84, 146, 94, 185, 249, 147, 133, 196, 220, 73, 210, 162, 221, 44, 141, 23, 245, 197, 216, 182, 86, 250, 216, 76, 229, 108, 70, 160, 102, 148, 17, 62>>
    [] c = <<255, 255, 0, 0, 0>> ->
      <<104, 115, 128, 188, 76, 218, 201, 152, 194, 62, 3, 132, 144, 119, 200, 79, 85, 110, 238, 203, 43, 124, 27, 101, 213, 11, 81, 62, 79, 253, 38, 90>>
    [] c = <<255, 255, 0, 0, 1>> ->
      <<198, 40, 54, 191, 228, 57, 193, 147, 185, 114, 145, 47, 235, 160, 83, 128, 206, 136, 14, 131, 15, 253, 222, 195, 87, 254, 254, 233, 28, 69, 89, 22>>
    [] c = <<255, 255, 0, 0, 255>> ->
      <<215, 78, 71, 31, 186, 112, 170, 204, 48, 16, 7, 92, 98, 167, 66, 214, 129, 187, 70, 69, 8, 7, 198, 231, 53, 239, 142, 167, 201, 1, 67, 92>>
    [] c = <<255, 255, 0, 1, 0>> ->
      <<49, 223, 177, 209, 149, 159, 49, 49, 125, 254, 49, 202, 48, 188, 83, 214, 93, 173, 152, 124, 6, 49, 93, 120, 110, 110, 79, 221, 109, 228, 188, 126>>
    [] c = <<255, 255, 0, 1, 1>> ->
      <<42, 203, 196, 201, 5, 223, 32, 182, 74, 79, 167, 200, 20, 241, 220, 161, 111, 187, 82, 191, 54, 25, 210, 227, 44, 184, 103, 219, 171, 50, 195, 39>>
    [] c = <<255, 255, 0, 1, 255>> ->
      <<241, 23, 64, 95, 122, 146, 63, 127, 112, 106, 160, 136, 249, 213, 198, 57, 75, 166, 36, 244, 169, 103, 46, 182, 247, 236, 29, 176, 180, 204, 116, 254>>
    [] c = <<255, 255, 0, 255, 0>> ->
      <<78, 253, 6, 8, 177, 32, 217, 161, 90, 68, 110, 26, 31, 49, 208, 154, 5, 127, 184, 119, 134, 87, 199, 71, 228, 171, 160, 226, 100, 88, 224, 200>>
    [] c = <<255, 255, 0, 255, 1>> ->
      <<255, 148, 158, 107, 170, 100, 58, 45, 108, 121, 22, 34, 89, 244, 190, 202, 120, 12, 56, 157, 242, 42, 145, 86, 50, 185, 55, 67, 192, 175, 104, 8>>
    [] c = <<255, 255, 0, 255, 255>> ->
      <<82, 164, 42, 226, 68, 191, 111, 216, 43, 202, 23, 207, 76, 128, 84, 143, 31, 11, 103, 189, 81, 189, 168, 56, 38, 83, 142, 77, 187, 54, 125, 174>>
    [] c = <<255, 255, 1, 0, 0>> ->
      <<148, 253, 136, 19, 121, 106, 114, 142, 61, 85, 251, 252, 7, 48, 111, 138, 164, 235, 166, 109, 222, 97, 40, 12, 158, 153, 140, 11, 18, 220, 154, 204>>
    [] c = <<255, 255, 1, 0, 1>> ->
      <<65, 143, 141, 122, 128, 204, 139, 228, 168, 133, 251, 93, 43, 190, 8, 213, 177, 135, 31, 71, 17, 211, 122, 159, 128, 114, 43, 171, 155, 103, 105, 210>>
    [] c = <<255, 255, 1, 0, 255>> ->
      <<158, 99, 130, 239, 152, 158, 77, 11, 114, 110, 34, 104, 41, 184, 224, 174, 179, 6, 175, 254, 210, 140, 14, 254, 248, 243, 5, 29, 152, 97, 217, 169>>
    [] c = <<255, 255, 1, 1, 0>> ->
      <<226, 162, 198, 90, 249, 218, 228, 56, 252, 217, 118, 53, 72, 176, 214, 201, 234, 153, 49, 151, 149, 243, 121, 38, 146, 87, 189, 237, 190, 213, 59, 152>>
    [] c = <<255, 255, 1, 1, 1>> ->
      <<13, 185, 51, 209, 191, 215, 99, 226, 109, 234, 11, 175, 204, 176, 228, 186, 161, 130, 82, 214, 121, 198, 157, 95, 166, 62, 23, 14, 96, 204, 47, 51>>
    [] c = <<255, 255, 1, 1, 255>> ->
      <<255, 39, 65, 8, 55, 164, 55, 62, 222, 89, 105, 47, 70, 234, 8, 24, 81, 99, 165, 253, 47, 233, 8, 25, 45, 142, 212, 173, 43, 166, 231, 25>>
    [] c = <<255, 255, 1, 255, 0>> ->
      <<229, 213, 253, 90, 230, 47, 156, 169, 19, 172, 231, 9, 55, 133, 94, 29, 228, 96, 163, 188, 22, 216, 231, 194, 241, 123, 55, 38, 181, 224, 6, 20>>
    [] c = <<255, 255, 1, 255, 1>> ->
      <<62, 139, 86, 218, 84, 33, 71, 39, 41, 43, 67, 100, 45, 123, 12, 142, 234, 15, 26, 118, 35, 195, 227, 25, 101, 249, 19, 174, 187, 240, 183, 3>>
    [] c = <<255, 255, 1, 255, 255>> ->
      <<251, 93, 105, 205, 212, 137, 216, 105, 95, 169, 133, 24, 32, 169, 128, 20, 149, 190, 86, 154, 155, 94, 163, 58, 238, 34, 134, 37, 6, 162, 135, 76>>
    [] c = <<255, 255, 255, 0, 0>> ->
      <<97, 18, 250, 160, 27, 191, 67, 33, 98, 162, 235, 224, 46, 110, 181, 182, 18, 188, 248, 189, 248, 242, 50, 85, 234, 45, 228, 174, 74, 142, 223, 43>>
    [] c = <<255, 255, 255, 0, 1>> ->
      <<26, 137, 100, 213, 48, 86, 148, 124, 170, 64, 106, 53, 38, 221, 178, 165, 213, 193, 171, 125, 12, 105, 210, 148, 164, 152, 14, 224, 104, 212, 149, 211>>
    [] c = <<255, 255, 255, 0, 255>> ->
      <<43, 120, 210, 91, 33, 117, 43, 5, 232, 65, 98, 69, 4, 125, 116, 162, 209, 114, 1, 14, 11, 132, 151, 214, 10, 103, 225, 242, 253, 196, 63, 94>>
    [] c = <<255, 255, 255, 1, 0>> ->
      <<11, 79, 32, 207, 4, 81, 159, 195, 212, 71, 254, 58, 223, 140, 1, 10, 171, 28, 102, 230, 254, 122, 169, 94, 193, 191, 98, 157, 255, 154, 76, 170>>
    [] c = <<255, 255, 255, 1, 1>> ->
      <<26, 221, 188, 30, 89, 35, 224, 171, 128, 137, 193, 159, 103, 43, 168, 172, 107, 144, 218, 0, 24, 255, 95, 80, 3, 155, 231, 176, 180, 207, 253, 163>>
    [] c = <<255, 255, 255, 1, 255>> ->
      <<11, 39, 95, 11, 93, 72, 108, 149, 91, 162, 229, 230, 20, 64, 75, 177, 57, 206, 156, 68, 97, 177, 99, 199, 120, 57, 220, 190, 174, 119, 63, 33>>
    [] c = <<255, 255, 255, 255, 0>> ->
      <<238, 211, 113, 137, 161, 8, 196, 252, 248, 58, 119, 217, 62, 67, 215, 24, 109, 62, 55, 244, 234, 85, 94, 182, 197, 76, 200, 135, 210, 56, 123, 147>>
    [] c = <<255, 255, 255, 255, 1>> ->
      <<251, 16, 79, 0, 237, 214, 166, 62, 92, 253, 44, 205, 57, 146, 182, 120, 130, 168, 49, 204, 202, 52, 53, 241, 119, 248, 216, 37, 44, 254, 11, 162>>
    [] c = <<255, 255, 255, 255, 255>> ->
      <<19, 35, 105, 163, 183, 242, 79, 166, 25, 120, 92, 78, 46, 238, 104, 133, 95, 93, 70, 203, 224, 170, 161, 158, 173, 208, 219, 194, 221, 89, 44, 57>>
    [] c = <<0, 0, 0, 0, 0, 0>> ->
      <<176, 246, 106, 220, 131, 100, 21, 134, 101, 104, 102, 129, 63, 217, 221, 11, 142, 187, 99, 121, 96, 117, 102, 27, 164, 93, 26, 168, 8, 158, 29, 68>>
    [] c = <<0, 0, 0, 0, 0, 1>> ->
      <<24, 97, 40, 191, 138, 77, 96, 235, 75, 81, 16, 42, 226, 162, 203, 106, 11, 128, 1, 25, 119, 88, 36, 128, 57, 90, 69, 68, 84, 190, 199, 225>>
    [] c = <<0, 0, 0, 0, 0, 255>> ->
      <<164, 118, 191, 70, 20, 183, 244, 193, 201, 146, 82, 238, 112, 128, 187, 113, 1, 169, 155, 224, 194, 174, 17, 140, 45, 56, 106, 108, 0, 7, 17, 183>>
    [] c = <<0, 0, 0, 0, 1, 0>> ->
      <<88, 134, 17, 246, 87, 65, 193, 113, 163, 217, 44, 29, 83, 67, 245, 221, 103, 244, 252, 71, 47, 197, 111, 1, 201, 188, 86, 143, 90, 194, 166, 35>>
    [] c = <<0, 0, 0, 0, 1, 1>> ->
      <<124, 112, 182, 177, 198, 18, 250, 84, 206, 123, 132, 214, 91, 132, 201, 191, 151, 182, 132, 110, 25, 115, 172, 117, 20, 237, 161, 50, 63, 123, 242, 203>>
    [] c = <<0, 0, 0, 0, 1, 255>> ->
      <<185, 40, 252, 209, 50, 169, 107, 113, 168, 13, 227, 223, 216, 184, 231, 73, 34, 102, 231, 160, 111, 160, 127, 210, 237, 170, 115, 99, 101, 216, 23, 114>>
    [] c = <<0, 0, 0, 0, 255, 0>> ->
      <<144, 6, 77, 7, 216, 61, 217, 15, 218, 180, 243, 235, 130, 111, 5, 234, 231, 203, 56, 13, 25, 231, 136, 57, 238, 1, 9, 152, 68, 149, 165, 212>>
    [] c = <<0, 0, 0, 0, 255, 1>> ->
      <<231, 147, 115, 110, 12, 19, 222, 228, 75, 39, 190, 46, 72, 197, 41, 39, 78, 192, 1, 164, 30, 120, 255, 112, 5, 219, 105, 188, 93, 91, 32, 17>>
    [] c = <<0, 0, 0, 0, 255, 255>> ->
      <<112, 191, 93, 211, 52, 209, 208, 245, 52, 110, 40, 77, 183, 73, 137, 170, 191, 135, 194, 196, 215, 218, 42, 167, 100, 181, 153, 202, 192, 118, 144, 155>>
    [] c = <<0, 0, 0, 1, 0, 0>> ->
      <<16, 72, 125, 134, 206, 53, 132, 225, 86, 135, 78, 217, 178, 101, 14, 141, 119, 42, 141, 31, 219, 177, 201, 17, 27, 247, 226, 251, 202, 177, 140, 203>>
    [] c = <<0, 0, 0, 1, 0, 1>> ->
      <<8, 190, 0, 132, 119, 119, 160, 1, 99, 181, 14, 24, 223, 50, 144, 5, 246, 52, 97, 88, 140, 130, 72, 122, 16, 197, 232, 199, 238, 108, 241, 8>>
    [] c = <<0, 0, 0, 1, 0, 255>> ->
      <<18, 198, 151, 158, 149, 237, 26, 237, 60, 134, 246, 207, 159, 181, 192, 23, 216, 164, 253, 105, 67, 139, 29, 108, 70, 121, 206, 38, 181, 211, 233, 24>>
    [] c = <<0, 0, 0, 1, 1, 0>> ->
      <<71, 116, 203, 196, 104, 193, 1, 26, 175, 145, 66, 208, 87, 255, 129, 67, 131, 201, 156, 57, 112, 76, 59, 229, 30, 210, 220, 149, 108, 106, 167, 147>>
    [] c = <<0, 0, 0, 1, 1, 1>> ->
      <<217, 198, 75, 228, 184, 77, 171, 102, 224, 36, 113, 227, 109, 69, 202, 3, 74, 182, 141, 91, 88, 239, 215, 118, 189, 212, 166, 40, 232, 228, 139, 214>>
    [] c = <<0, 0, 0, 1, 1, 255>> ->
      <<23, 217, 64, 191, 13, 88, 0, 248, 83, 109, 31, 182, 161, 172, 111, 93, 138, 129, 146, 38, 231, 56, 214, 135, 31, 157, 255, 59, 148, 111, 135, 237>>
    [] c = <<0, 0, 0, 1, 255, 0>> ->
      <<26, 86, 249, 87, 51, 219, 4, 142, 185, 1, 14, 199, 238, 58, 22, 198, 200, 41, 15, 122, 251, 63, 197, 211, 103, 190, 254, 188, 133, 141, 229, 55>>
    [] c = <<0, 0, 0, 1, 255, 1>> ->
      <<36, 135, 44, 132, 97, 83, 133, 66, 71, 64, 233, 126, 6, 46, 139, 72, 99, 131, 179, 11, 120, 169, 183, 71, 21, 239, 238, 74, 67, 131, 168, 35>>
    [] c = <<0, 0, 0, 1, 255, 255>> ->
      <<0, 193, 129, 162, 65, 130, 79, 87, 95, 177, 77, 208, 154, 180, 207, 18, 198, 219, 7, 142, 206, 45, 89, 135, 27, 201, 43, 38, 97, 187, 166, 55>>
    [] c = <<0, 0, 0, 255, 0, 0>> ->
      <<54, 162, 253, 202, 5, 149, 169, 232, 107, 88, 164, 238, 240, 6, 11, 56, 106, 229, 21, 195, 216, 238, 201, 19, 143, 79, 160, 217, 7, 91, 151, 233>>
    [] c = <<0, 0, 0, 255, 0, 1>> ->
      <<201, 25, 70, 163, 83, 90, 21, 105, 63, 147, 120, 156, 148, 238, 87, 16, 97, 101, 247, 173, 240, 191, 134, 188, 235, 214, 18, 139, 149, 209, 94, 81>>
    [] c = <<0, 0, 0, 255, 0, 255>> ->
      <<85, 15, 131, 12, 63, 166, 112, 223, 161, 53, 23, 234, 144, 216, 115, 143, 230, 125, 21, 42, 9, 177, 183, 83, 222, 98, 236, 45, 20, 239, 179, 72>>
    [] c = <<0, 0, 0, 255, 1, 0>> ->
      <<112, 51, 208, 113, 27, 119, 244, 85, 10, 85, 2, 174, 164, 89, 185, 255, 119, 158, 198, 180, 17, 98, 153, 84, 144, 240, 130, 197, 39, 112, 247, 44>>
    [] c = <<0, 0, 0, 255, 1, 1>> ->
      <<7, 120, 103, 166, 86, 226, 164, 200, 206, 87, 156, 204, 251, 106, 205, 131, 197, 15, 122, 125, 93, 89, 243, 70, 187, 207, 9, 126, 127, 234, 78, 217>>
    [] c = <<0, 0, 0, 255, 1, 255>> ->
      <<195, 64, 115, 85, 104, 187, 109, 57, 196, 168, 160, 93, 112, 109, 234, 189, 162, 193, 110, 173, 138, 243, 58, 81, 150, 61, 249, 233, 24, 236, 206, 197>>
    [] c = <<0, 0, 0, 255, 255, 0>> ->
      <<156, 59, 16, 61, 50, 220, 165, 212, 59, 75, 55, 80, 119, 107, 176, 35, 42, 69, 53, 188, 24, 78, 89, 94, 197, 75, 197, 135, 45, 128, 109, 83>>
    [] c = <<0, 0, 0, 255, 255, 1>> ->
      <<112, 148, 14, 229, 220, 209, 166, 62, 217, 37, 6, 189, 136, 3, 86, 7, 138, 135, 179, 125, 26, 12, 209, 25, 94, 29, 191, 107, 171, 45, 31, 20>>
    [] c = <<0, 0, 0, 255, 255, 255>> ->
      <<105, 228, 254, 238, 154, 157, 222, 63, 234, 121, 245, 123, 241, 172, 104, 97, 69, 129, 194, 107, 199, 86, 42, 55, 255, 175, 206, 97, 9, 94, 127, 97>>
    [] c = <<0, 0, 1, 0, 0, 0>> ->
      <<2, 95, 194, 70, 241, 55, 89, 193, 146, 203, 186, 226, 166, 143, 43, 89, 182, 71, 143, 33, 179, 26, 5, 215, 116, 131, 168, 126, 65, 121, 6, 221>>
    [] c = <<0, 0, 1, 0, 0, 1>> ->
      <<189, 232, 199, 133, 203, 198, 151, 9, 42, 149, 187, 99, 51, 66, 35, 104, 122, 79, 17, 58, 216, 45, 244, 105, 208, 164, 127, 148, 45, 85, 128, 124>>
    [] c = <<0, 0, 1, 0, 0, 255>> ->
      <<228, 56, 6, 4, 138, 242, 58, 117, 182, 227, 105, 46, 125, 237, 84, 229, 251, 194, 70, 228, 55, 195, 198, 70, 194, 208, 11, 139, 208, 24, 90, 192>>
    [] c = <<0, 0, 1, 0, 1, 0>> ->
      <<47, 113, 36, 204, 80, 228, 80, 208, 252, 132, 249, 171, 239, 64, 156, 197, 121, 96, 229, 30, 94, 47, 169, 172, 103, 221, 128, 178, 100, 66, 225, 129>>
    [] c = <<0, 0, 1, 0, 1, 1>> ->
      <<161, 167, 146, 100, 252, 27, 12, 14, 64, 14, 115, 233, 172, 86, 72, 104, 246, 176, 176, 153, 162, 232, 163, 108, 247, 11, 79, 63, 195, 39, 165, 209>>
    [] c = <<0, 0, 1, 0, 1, 255>> ->
      <<18, 250, 22, 193, 109, 157, 149, 58, 29, 250, 79, 91, 114, 228, 31, 99, 185, 185, 138, 154, 149, 38, 2, 207, 102, 193, 189, 236, 159, 171, 144, 15>>
    [] c = <<0, 0, 1, 0, 255, 0>> ->
      <<183, 94, 35, 88, 247, 246, 201, 44, 238, 23, 145, 164, 34, 27, 52, 193, 112, 169, 5, 151, 61, 17, 82, 227, 91, 214, 255, 167, 166, 76, 194, 84>>
    [] c = <<0, 0, 1, 0, 255, 1>> ->
      <<133, 120, 81, 106, 250, 215, 244, 240, 56, 206, 18, 48, 6, 156, 13, 149, 133, 70, 187, 10, 181, 70, 39, 58, 69, 156, 197, 182, 111, 81, 251, 215>>
    [] c = <<0, 0, 1, 0, 255, 255>> ->
      <<192, 9, 71, 39, 235, 94, 140, 44, 55, 39, 169, 30, 54, 105, 22, 65, 38, 192, 181, 195, 219, 81, 79, 149, 191, 174, 234, 202, 0, 21, 8, 118>>
    [] c = <<0, 0, 1, 1, 0, 0>> ->
      <<65, 55, 50, 222, 237, 91, 17, 202, 231, 194, 85, 236, 176, 105, 120, 225, 35, 168, 161, 32, 73, 110, 160, 121, 218, 244, 191, 72, 175, 74, 171, 84>>
    [] c = <<0, 0, 1, 1, 0, 1>> ->
      <<215, 125, 14, 144, 239, 81, 115, 155, 141, 188, 127, 141, 111, 37, 139, 31, 139, 187, 253, 193, 207, 103, 90, 156, 177, 242, 105, 236, 5, 101, 162, 125>>
    [] c = <<0, 0, 1, 1, 0, 255>> ->
      <<150, 175, 207, 53, 86, 32, 218, 77, 111, 11, 54, 12, 242, 211, 128, 184, 51, 2, 28, 116, 250, 118, 140, 29, 110, 69, 144, 63, 37, 236, 190, 198>>
    [] c = <<0, 0, 1, 1, 1, 0>> ->
      <<210, 64, 48, 57, 236, 161, 96, 13, 69, 206, 178, 225, 185, 111, 222, 238, 29, 53, 118, 104, 237, 148, 72, 110, 57, 50, 218, 174, 248, 22, 62, 204>>
    [] c = <<0, 0, 1, 1, 1, 1>> ->
      <<205, 213, 39, 242, 241, 56, 221, 215, 117, 144, 45, 99, 123, 110, 44, 245, 113, 64, 181, 86, 174, 180, 253, 126, 57, 217, 101, 32, 67, 115, 93, 165>>
    [] c = <<0, 0, 1, 1, 1, 255>> ->
      <<22, 84, 104, 32, 134, 132, 0, 87, 11, 96, 79, 185, 232, 238, 90, 53, 109, 87, 50, 87, 76, 11, 232, 43, 149, 68, 218, 57, 232, 110, 145, 184>>
    [] c = <<0, 0, 1, 1, 255, 0>> ->
      <<169, 31, 9, 17, 236, 25, 108, 88, 77, 69, 226, 145, 48, 122, 162, 75, 101, 250, 159, 198, 128, 144, 168, 175, 193, 20, 9, 246, 231, 187, 94, 156>>
    [] c = <<0, 0, 1, 1, 255, 1>> ->
      <<62, 104, 128, 132, 58, 126, 85, 252, 91, 223, 227, 99, 187, 52, 110, 169, 68, 19, 8, 193, 29, 174, 179, 100, 136, 244, 8, 91, 122, 47, 240, 18>>
    [] c = <<0, 0, 1, 1, 255, 255>> ->
      <<55, 63, 250, 188, 193, 43, 93, 219, 3, 161, 96, 87, 147, 34, 165, 8, 201, 230, 187, 12, 114, 89, 12, 125, 153, 181, 214, 19, 139, 157, 140, 202>>
    [] c = <<0, 0, 1, 255, 0, 0>> ->
      <<124, 69, 79, 194, 10, 232, 28, 36, 74, 185, 108, 172, 199, 152, 77, 221, 138, 98, 151, 105, 44, 219, 73, 166, 46, 210, 15, 116, 168, 0, 79, 23>>
    [] c = <<0, 0, 1, 255, 0, 1>> ->
      <<104, 47, 204, 156, 228, 170, 87, 161, 35, 154, 149, 223, 227, 218, 83, 73, 75, 8, 116, 92, 187, 220, 192, 85, 64, 135, 74, 226, 13, 17, 148, 154>>
    [] c = <<0, 0, 1, 255, 0, 255>> ->
      <<97, 224, 164, 65, 20, 100, 225, 183, 76, 218, 128, 191, 166, 7, 144, 209, 138, 10, 0, 79, 180, 7, 104, 163, 184, 110, 45, 97, 58, 48, 97, 48>>
    [] c = <<0, 0, 1, 255, 1, 0>> ->
      <<14, 136, 136, 170, 180, 185, 3, 34, 21, 116, 62, 216, 166, 194, 197, 15, 111, 96, 254, 52, 213, 11, 32, 224, 78, 184, 88, 58, 186, 71, 45, 112>>
    [] c = <<0, 0, 1, 255, 1, 1>> ->
      <<229, 129, 12, 48, 195, 190, 117, 183, 35, 148, 181, 46, 228, 87, 118, 186, 176, 42, 136, 81, 204, 253, 96, 97, 105, 128, 172, 122, 41, 182, 50, 69>>
    [] c = <<0, 0, 1, 255, 1, 255>> ->
      <<135, 86, 143, 117, 178, 1, 20, 103, 19, 28, 2, 141, 95, 79, 149, 247, 194, 103, 115, 162, 25, 220, 234, 172, 57, 148, 140, 175, 0, 99, 166, 36>>
    [] c = <<0, 0, 1, 255, 255, 0>> ->
      <<132, 175, 24, 155, 19, 126, 4, 223, 226, 246, 94, 209, 254, 96, 126, 160, 195, 10, 7, 233, 217, 10, 188, 216, 66, 0, 105, 222, 80, 125, 20, 116>>
    [] c = <<0, 0, 1, 255, 255, 1>> ->
      <<61, 68, 1, 139, 62, 223, 111, 186, 180, 55, 120, 101, 101, 211, 217, 140, 186, 189, 22, 253, 28, 70, 218, 39, 151, 162, 250, 172, 198, 178, 149, 133>>
    [] c = <<0, 0, 1, 255, 255, 255>> ->
      <<117, 61, 166, 189, 108, 249, 148, 95, 161, 163, 209, 42, 167, 135, 1, 82, 53, 224, 48, 60, 94, 110, 249, 183, 176, 146, 60, 175, 65, 122, 182, 212>>
    [] c = <<0, 0, 255, 0, 0, 0>> ->
      <<192, 156, 84, 146, 109, 163, 105, 160, 201, 68, 226, 111, 224, 27, 34, 37, 198, 150, 174, 79, 100, 205, 197, 192, 106, 122, 5, 50, 13, 43, 40, 129>>
    [] c = <<0, 0, 255, 0, 0, 1>> ->
      <<68, 173, 144, 15, 51, 196, 0, 21, 44, 58, 145, 46, 172, 7, 33, 206, 109, 67, 207, 190, 205, 81, 172, 249, 252, 124, 5, 211, 110, 238, 63, 205>>
    [] c = <<0, 0, 255, 0, 0, 255>> ->
      <<78, 126, 251, 191, 13, 166, 40, 63, 209, 8, 198, 254, 139, 114, 248, 82, 10, 101, 231, 103, 110, 182, 42, 180, 224, 236, 3, 60, 114, 131, 147, 176>>
    [] c = <<0, 0, 255, 0, 1, 0>> ->
      <<224, 90, 27, 213, 3, 194, 177, 172, 80, 47, 236, 170, 54, 171, 235, 62, 116, 4, 216, 229, 152, 102, 167, 102, 98, 41, 32, 15, 9, 145, 15, 211>>
    [] c = <<0, 0, 255, 0, 1, 1>> ->
      <<244, 194, 104, 84, 97, 2, 44, 245, 81, 82, 67, 26, 159, 229, 4, 169, 220, 12, 255, 34, 45, 181, 94, 127, 53, 243, 188, 73, 138, 132, 26, 119>>
    [] c = <<0, 0, 255, 0, 1, 255>> ->
      <<118, 60, 90, 184, 173, 64, 132, 200, 186, 91, 142, 61, 161, 99, 162, 235, 34, 165, 35, 195, 106, 53, 67, 59, 190, 247, 16, 57, 237, 236, 99, 114>>
    [] c = <<0, 0, 255, 0, 255, 0>> ->
      <<189, 207, 224, 171, 95, 145, 16, 213, 223, 67, 49, 73, 171, 137, 41, 213, 101, 117, 100, 15, 214, 101, 203, 36, 107, 43, 245, 219, 220, 246, 120, 151>>
    [] c = <<0, 0, 255, 0, 255, 1>> ->
      <<82, 132, 197, 97, 93, 68, 196, 219, 138, 205, 91, 63, 152, 108, 107, 190, 204, 249, 86, 105, 35, 22, 49, 9, 39, 184, 67, 179, 150, 245, 144, 29>>
    [] c = <<0, 0, 255, 0, 255, 255>> ->
      <<69, 162, 149, 251, 57, 228, 93, 215, 150, 225, 46, 203, 213, 83, 120, 236, 238, 228, 244, 25, 136, 124, 215, 49, 212, 154, 215, 105, 216, 3, 163, 29>>
    [] c = <<0, 0, 255, 1, 0, 0>> ->
      <<4, 7, 141, 125, 113, 2, 159, 213, 153, 92, 176, 44, 189, 255, 150, 25, 169, 208, 131, 52, 188, 191, 74, 5, 118, 39, 203, 79, 214, 198, 154, 90>>
    [] c = <<0, 0, 255, 1, 0, 1>> ->
      <<211, 148, 8, 188, 40, 63, 177, 25, 203, 13, 180, 3, 119, 208, 165, 181, 242, 158, 59, 223, 105, 72, 64, 241, 51, 70, 159, 170, 78, 168, 27, 104>>
    [] c = <<0, 0, 255, 1, 0, 255>> ->
      <<8, 78, 33, 247, 123, 186, 130, 128, 207, 121, 125, 197, 101, 211, 115, 215, 120, 91, 57, 16, 14, 251, 191, 254, 155, 139, 174, 214, 187, 148, 125, 238>>
    [] c = <<0, 0, 255, 1, 1, 0>> ->
      <<222, 163, 63, 49, 126, 40, 215, 8, 140, 234, 184, 198, 83, 236, 253, 206, 88, 151, 134, 138, 103, 7, 204, 243, 61, 142, 165, 244, 179, 130, 247, 246>>
    [] c = <<0, 0, 255, 1, 1, 1>> ->
      <<59, 2, 20, 210, 176, 243, 17, 117, 127, 154, 255, 17, 215, 84, 146, 13, 219, 23, 102, 142, 240, 69, 168, 28, 106, 8, 63, 127, 54, 213, 218, 127>>
    [] c = <<0, 0, 255, 1, 1, 255>> ->
      <<54, 178, 153, 13, 68, 236, 194, 170, 125, 163, 236, 252, 42, 219, 182, 203, 0, 214, 201, 141, 125, 117, 236, 26, 211, 223, 123, 151, 144, 48, 70, 87>>
    [] c = <<0, 0, 255, 1, 255, 0>> ->
      <<210, 137, 51, 224, 207, 6, 138, 72, 147, 191, 185, 50, 241, 70, 176, 63, 196, 55, 249, 48, 138, 165, 62, 252, 32, 76, 32, 176, 118, 158, 91, 10>>
    [] c = <<0, 0, 255, 1, 255, 1>> ->
      <<204, 64, 111, 173, 126, 17, 135, 84, 184, 113, 91, 96, 62, 153, 104, 214, 251, 232, 249, 141, 202, 213, 128, 210, 33, 104, 104, 126, 109, 18, 21, 143>>
    [] c = <<0, 0, 255, 1, 255, 255>> ->
      <<15, 200, 62, 66, 167, 4, 120, 54, 47, 193, 78, 124, 153, 72, 244, 96, 158, 170, 84, 51, 145, 13, 194, 175, 99, 233, 28, 75, 118, 0, 164, 151>>
    [] c = <<0, 0, 255, 255, 0, 0>> ->
      <<42, 201, 155, 178, 144, 77, 146, 197, 171, 137, 39, 194, 70, 148, 216, 253, 112, 188, 232, 187, 85, 69, 2, 4, 16, 61, 18, 77, 201, 215, 38, 92>>
    [] c = <<0, 0, 255, 255, 0, 1>> ->
      <<70, 8, 40, 252, 99, 201, 227, 172, 33, 152, 175, 127, 203, 43, 65, 117, 242, 60, 167, 158, 183, 200, 201, 108, 206, 143, 46, 36, 165, 118, 168, 177>>
    [] c = <<0, 0, 255, 255, 0, 255>> ->
      <<188, 192, 2, 117, 182, 128, 175, 87, 181, 55, 4, 255, 20, 47, 241, 244, 179, 247, 95, 155, 247, 98, 122, 12, 115, 8, 70, 85, 130, 83, 203, 59>>
    [] c = <<0, 0, 255, 255, 1, 0>> ->
      <<85, 97, 80, 226, 185, 66, 175, 239, 10, 39, 25, 39, 242, 46, 40, 73, 110, 173, 50, 210, 221, 250, 70, 153, 190, 19, 183, 42, 11, 236, 22, 146>>
    [] c = <<0, 0, 255, 255, 1, 1>> ->
      <<161, 232, 187, 255, 132, 131, 99, 228, 237, 176, 169, 85, 122, 143, 119, 230, 17, 179, 162, 133, 120, 228, 34, 74, 22, 31, 101, 31, 144, 228, 127, 154>>
    [] c = <<0, 0, 255, 255, 1, 255>> ->
      <<2, 114, 82, 93, 233, 50, 62, 97, 243, 121, 12, 119, 37, 208, 226, 121, 92, 85, 80, 47, 208, 163, 89, 242, 65, 122, 96, 121, 197, 101, 189, 61>>
    [] c = <<0, 0, 255, 255, 255, 0>> ->
      <<201, 53, 154, 205, 230, 128, 24, 211, 196, 134, 94, 109, 65, 11, 118, 1, 54, 215, 36, 170, 245, 183, 36, 234, 55, 164, 231, 117, 59, 255, 197, 248>>
    [] c = <<0, 0, 255, 255, 255, 1>> ->
      <<66, 153, 168, 102, 151, 30, 43, 135, 226, 251, 26, 202, 109, 22, 124, 220, 112, 138, 140, 225, 200, 241, 128, 29, 109, 4, 229, 195, 181, 155, 61, 18>>
    [] c = <<0, 0, 255, 255, 255, 255>> ->
      <<101, 96, 65, 66, 192, 208, 69, 29, 229, 132, 47, 75, 108, 94, 117, 109, 214, 25, 170, 123, 137, 192, 181, 100, 23, 147, 66, 43, 198, 128, 31, 8>>
    [] c = <<0, 1, 0, 0, 0, 0>> ->
      <<1, 207, 133, 207, 235, 54, 214, 40, 202, 46, 111, 88, 63, 162, 51, 27, 224, 41, 182, 178, 142, 135, 126, 16, 8, 251, 63, 134, 35, 6, 192, 134>>
    [] c = <<0, 1, 0, 0, 0, 1>> ->
      <<241, 23, 130, 42, 81, 224, 209, 106, 111, 225, 54, 45, 165, 7, 220, 255, 117, 96, 73, 195, 41, 143, 95, 8, 236, 131, 74, 76, 190, 32, 68, 128>>
    [] c = <<0, 1, 0, 0, 0, 255>> ->
      <<72, 27, 39, 144, 222, 53, 180, 198, 100, 96, 212, 69, 121, 139, 235, 24, 175, 176, 85, 8, 172, 14, 65, 211, 108, 145, 242, 44, 130, 230, 202, 62>>
    [] c = <<0, 1, 0, 0, 1, 0>> ->
      <<236, 31, 139, 198, 124, 76, 59, 68, 177, 155, 194, 21, 29, 149, 68, 154, 182, 4, 129, 243, 181, 154, 189, 135, 9, 222, 145, 52, 244, 217, 43, 112>>
    [] c = <<0, 1, 0, 0, 1, 1>> ->
      <<150, 28, 20, 105, 4, 47, 33, 49, 178, 54, 154, 188, 56, 67, 113, 65, 194, 114, 214, 241, 52, 128, 91, 184, 208, 254, 10, 70, 137, 223, 228, 203>>
    [] c = <<0, 1, 0, 0, 1, 255>> ->
      <<152, 9, 106, 226, 43, 41, 224, 147, 154, 67, 71, 113, 19, 149, 39, 82, 162, 253, 254, 127, 18, 252, 68, 95, 243, 17, 229, 204, 86, 61, 176, 63>>
    [] c = <<0, 1, 0, 0, 255, 0>> ->
      <<169, 3, 104, 90, 102, 163, 19, 44, 63, 62, 153, 19, 236, 229, 225, 247, 159, 193, 119, 72, 88, 65, 137, 126, 54, 197, 116, 158, 110, 245, 61, 49>>
    [] c = <<0, 1, 0, 0, 255, 1>> ->
      <<194, 226, 23, 141, 67, 105, 25, 205, 124, 7, 10, 181, 66, 119, 75, 254, 4, 19, 242, 171, 109, 234, 140, 53, 39, 208, 60, 36, 127, 111, 207, 253>>
    [] c = <<0, 1, 0, 0, 255, 255>> ->
      <<208, 10, 230, 155, 185, 183, 92, 249, 65, 117, 47, 183, 225, 211, 26, 99, 121, 49, 175, 106, 98, 71, 22, 186, 71, 174, 137, 213, 189, 83, 102, 52>>
    [] c = <<0, 1, 0, 1, 0, 0>> ->
      <<125, 13, 188, 185, 9, 140, 44, 63, 166, 6, 112, 48, 135, 111, 116, 50, 47, 220, 42, 64, 34, 87, 69, 88, 26, 123, 173, 36, 124, 175, 215, 183>>
    [] c = <<0, 1, 0, 1, 0, 1>> ->
      <<123, 148, 83, 244, 182, 194, 239, 147, 157, 57, 89, 64, 11, 14, 243, 86, 2, 93, 162, 149, 181, 64, 43, 171, 94, 62, 192, 49, 47, 22, 108, 82>>
    [] c = <<0, 1, 0, 1, 0, 255>> ->
      <<107, 164, 52, 196, 70, 145, 10, 17, 8, 142, 179, 143, 229, 102, 161, 25, 197, 125, 102, 32, 223, 189, 145, 49, 54, 33, 247, 98, 143, 56, 59, 84>>
    [] c = <<0, 1, 0, 1, 1, 0>> ->
      <<234, 171, 223, 29, 246, 226, 4, 175, 151, 106, 219, 57, 90, 162, 138, 29, 188, 62, 19, 39, 26, 83, 234, 154, 160, 52, 254, 128, 191, 54, 149, 132>>
    [] c = <<0, 1, 0, 1, 1, 1>> ->
      <<235, 209, 86, 204, 64, 192, 86, 143, 87, 222, 53, 58, 89, 213, 167, 200, 152, 184, 33, 214, 12, 228, 148, 163, 206, 106, 49, 181, 81, 54, 207, 147>>
    [] c = <<0, 1, 0, 1, 1, 255>> ->
      <<244, 66, 9, 101, 165, 248, 24, 174, 188, 252, 244, 178, 10, 163, 46, 112, 209, 8, 120, 103, 51, 247, 171, 80, 233, 14, 225, 60, 246, 239, 167, 34>>
    [] c = <<0, 1, 0, 1, 255, 0>> ->
      <<219, 103, 61, 169, 32, 137, 103, 50, 207, 6, 32, 16, 228, 206, 47, 224, 82, 103, 163, 74, 35, 232, 110, 215, 239, 43, 124, 227, 84, 16, 69, 213>>
    [] c = <<0, 1, 0, 1, 255, 1>> ->
      <<61, 193, 191, 152, 17, 94, 151, 112, 254, 107, 43, 207, 159, 231, 243, 67, 78, 237, 199, 38, 123, 164, 10, 7, 180, 122, 84, 255, 122, 111, 235, 204>>
    [] c = <<0, 1, 0, 1, 255, 255>> ->
      <<14, 99, 100, 234, 112, 162, 49, 237, 50, 83, 124, 227, 100, 195, 187, 71, 22, 29, 23, 39, 80, 6, 128, 67, 148, 147, 23, 191, 54, 143, 100, 210>>
    [] c = <<0, 1, 0, 255, 0, 0>> ->
      <<39, 18, 205, 67, 65, 88, 104, 212, 229, 103, 220, 44, 59, 27, 14, 106, 249, 208, 167, 21, 199, 75, 228, 117, 30, 95, 125, 43, 79, 154, 89, 225>>
    [] c = <<0, 1, 0, 255, 0, 1>> ->
      <<139, 90, 225, 84, 247, 199, 136, 31, 35, 38, 139, 121, 1, 66, 21, 164, 68, 169, 206, 132, 45, 69, 85, 16, 145, 162, 81, 95, 158, 114, 11, 82>>
    [] c = <<0, 1, 0, 255, 0, 255>> ->
      <<81, 26, 114, 154, 243, 115, 86, 21, 149, 2, 43, 11, 23, 229, 229, 233, 82, 210, 177, 82, 237, 156, 254, 0, 160, 73, 182, 10, 106, 250, 31, 18>>
    [] c = <<0, 1, 0, 255, 1, 0>> ->
      <<149, 110, 179, 64, 158, 255, 147, 81, 185, 85, 35, 125, 228, 10, 185, 38, 16, 104, 131, 87, 157, 155, 15, 221, 118, 155, 82, 228, 177, 244, 5, 108>>
    [] c = <<0, 1, 0, 255, 1, 1>> ->
      <<12, 243, 6, 214, 158, 122, 80, 133, 223, 14, 251, 191, 88, 27, 41, 125, 151, 14, 112, 223, 37, 47, 211, 201, 146, 83, 161, 130, 76, 70, 107, 139>>
    [] c = <<0, 1, 0, 255, 1, 255>> ->
      <<208, 86, 68, 40, 148, 184, 97, 41, 161, 228, 43, 255, 224, 4, 200, 230, 19, 194, 0, 115, 52, 157, 227, 159, 207, 214, 245, 69, 199, 21, 108, 248>>
    [] c = <<0, 1, 0, 255, 255, 0>> ->
      <<140, 14, 247, 117, 159, 87, 14, 223, 199, 84, 235, 255, 171, 23, 102, 232, 45, 236, 151, 47, 38, 128, 228, 99, 8, 247, 103, 97, 125, 163, 159, 71>>
    [] c = <<0, 1, 0, 255, 255, 1>> ->
      <<235, 161, 23, 245, 119, 122, 222, 244, 112, 125, 194, 38, 124, 231, 218, 215, 5, 54, 19, 220, 213, 240, 154, 5, 146, 30, 183, 188, 213, 13, 226, 183>>
    [] c = <<0, 1, 0, 255, 255, 255>> ->
      <<37, 26, 173, 46, 39, 212, 21, 253, 46, 25, 178, 247, 222, 184, 30, 4, 179, 253, 101, 72, 242, 240, 197, 94, 64, 81, 92, 84, 83, 6, 152, 124>>
    [] c = <<0, 1, 1, 0, 0, 0>> ->
      <<138, 28, 35, 126, 237, 219, 179, 120, 51, 225, 17, 206, 106, 19, 168, 58, 160, 45, 81, 162, 41, 108, 92, 38, 231, 199, 17, 39, 112, 43, 11, 131>>
    [] c = <<0, 1, 1, 0, 0, 1>> ->
      <<7, 55, 133, 245, 39, 246, 231, 212, 163, 155, 30, 241, 238, 62, 17, 14, 136, 85, 211, 203, 178, 248, 252, 156, 231, 138, 115, 229, 11, 131, 243, 0>>
    [] c = <<0, 1, 1, 0, 0, 255>> ->
      <<8, 39, 34, 197, 48, 15, 202, 255, 115, 15, 246, 166, 50, 213, 10, 87, 91, 87, 67, 96, 38, 159, 123, 89, 148, 252, 244, 25, 194, 229, 25, 104>>
    [] c = <<0, 1, 1, 0, 1, 0>> ->
      <<107, 128, 105, 81, 237, 158, 104, 10, 86, 114, 22, 75, 129, 249, 5, 219, 58, 101, 159, 156, 142, 255, 198, 247, 2, 139, 155, 70, 242, 247, 12, 65>>
    [] c = <<0, 1, 1, 0, 1, 1>> ->
      <<88, 200, 158, 21, 162, 21, 125, 199, 21, 86, 118, 157, 115, 160, 228, 210, 99, 117, 107, 13, 164, 92, 158, 196, 85, 16, 178, 184, 2, 120, 201, 206>>
    [] c = <<0, 1, 1, 0, 1, 255>> ->
      <<177, 25, 225, 109, 234, 63, 249, 78, 217, 165, 55, 215, 212, 89, 226, 136, 114, 28, 216, 62, 161, 236, 241, 4, 36, 57, 206, 125, 229, 145, 33, 79>>
    [] c = <<0, 1, 1, 0, 255, 0>> ->
      <<92, 168, 101, 228, 78, 187, 132, 103, 141, 144, 190, 16, 182, 11, 119, 83, 139, 50, 83, 234, 177, 221, 0, 121, 145, 134, 231, 229, 218, 141, 32, 229>>
    [] c = <<0, 1, 1, 0, 255, 1>> ->
      <<232, 123, 47, 14, 125, 38, 129, 36, 11, 100, 121, 191, 184, 77, 34, 72, 183, 172, 238, 64, 228, 246, 144, 160, 127, 171, 253, 169, 13, 9, 113, 72>>
    [] c = <<0, 1, 1, 0, 255, 255>> ->
      <<108, 137, 103, 16, 189, 94, 146, 82, 228, 240, 111, 163, 211, 62, 160, 31, 35, 218, 216, 101, 171, 195, 178, 192, 198, 41, 193, 175, 55, 219, 122, 51>>
    [] c = <<0, 1, 1, 1, 0, 0>> ->
      <<182, 10, 87, 21, 70, 15, 243, 21, 31, 88, 92, 167, 210, 70, 121, 189, 230, 183, 72, 109, 222, 217, 45, 241, 98, 107, 46, 15, 161, 54, 22, 232>>
    [] c = <<0, 1, 1, 1, 0, 1>> ->
      <<109, 27, 204, 170, 45, 98, 174, 111, 131, 217, 146, 7, 98, 10, 55, 227, 81, 142, 53, 89, 65, 121, 118, 125, 193, 165, 225, 43, 114, 231, 197, 166>>
    [] c = <<0, 1, 1, 1, 0, 255>> ->
      <<55, 195, 68, 241, 97, 250, 86, 248, 32, 55, 252, 25, 181, 81, 142, 105, 51, 177, 173, 247, 214, 200, 40, 40, 20, 233, 110, 52, 155, 153, 213, 203>>
    [] c = <<0, 1, 1, 1, 1, 0>> ->
      <<14, 196, 168, 57, 39, 211, 172, 178, 193, 131, 121, 159, 214, 65, 147, 31, 239, 170, 27, 42, 167, 16, 215, 14, 137, 129, 186, 218, 176, 30, 62, 51>>
    [] c = <<0, 1, 1, 1, 1, 1>> ->
      <<82, 33, 125, 168, 157, 232, 2, 112, 60, 252, 146, 211, 94, 64, 236, 221, 91, 228, 90, 26, 249, 119, 239, 93, 75, 227, 56, 146, 86, 39, 73, 161>>
    [] c = <<0, 1, 1, 1, 1, 255>> ->
      <<156, 138, 116, 201, 81, 140, 173, 134, 136, 196, 61, 119, 240, 170, 10, 76, 81, 76, 105, 167, 25, 207, 161, 2, 150, 206, 251, 88, 217, 188, 176, 20>>
    [] c = <<0, 1, 1, 1, 255, 0>> ->
      <<231, 17, 104, 209, 35, 207, 250, 166, 43, 255, 92, 167, 117, 85, 63, 212, 191, 46, 192, 252, 29, 108, 123, 214, 57, 79, 67, 29, 183, 164, 45, 40>>
    [] c = <<0, 1, 1, 1, 255, 1>> ->
      <<20, 2, 233, 64, 139, 197, 27, 237, 179, 61, 77, 202, 138, 179, 71, 73, 225, 254, 5, 205, 149, 246, 48, 122, 24, 83, 62, 251, 113, 158, 210, 99>>
    [] c = <<0, 1, 1, 1, 255, 255>> ->
      <<120, 68, 238, 31, 200, 82, 70, 178, 134, 44, 237, 166, 230, 107, 215, 140, 140, 175, 197, 170, 129, 191, 68, 12, 118, 253, 255, 141, 153, 157, 27, 71>>
    [] c = <<0, 1, 1, 255, 0, 0>> ->
      <<170, 103, 253, 38, 222, 182, 109, 234, 79, 187, 152, 241, 123, 105, 56, 189, 94, 136, 41, 224, 253, 20, 122, 51, 7, 114, 253, 113, 202, 46, 157, 59>>
    [] c = <<0, 1, 1, 255, 0, 1>> ->
      <<206, 128, 217, 18, 78, 157, 104, 116, 111, 83, 157, 15, 7, 54, 25, 77, 21, 202, 208, 61, 241, 145, 23, 5, 241, 191, 29, 67, 135, 160, 82, 76>>
    [] c = <<0, 1, 1, 255, 0, 255>> ->
      <<91, 36, 107, 102, 192, 97, 186, 55, 245, 124, 221, 153, 175, 104, 82, 207, 66, 61, 210, 113, 203, 100, 99, 118, 212, 136, 118, 154, 158, 253, 31, 25>>
    [] c = <<0, 1, 1, 255, 1, 0>> ->
      <<38, 53, 156, 76, 115, 11, 178, 89, 228, 239, 43, 4, 127, 171, 52, 64, 184, 219, 213, 160, 253, 123, 217, 90, 54, 171, 95, 57, 94, 76, 127, 129>>
    [] c = <<0, 1, 1, 255, 1, 1>> ->
      <<64, 208, 52, 124, 194, 17, 7, 161, 225, 148, 228, 0, 76, 9, 47, 112, 45, 233, 214, 180, 5, 71, 46, 145, 18, 69, 18, 58, 0, 197, 100, 19>>
    [] c = <<0, 1, 1, 255, 1, 255>> ->
      <<69, 70, 104, 98, 68, 82, 122, 101, 191, 156, 116, 217, 15, 133, 250, 144, 159, 38, 25, 118, 118, 125, 110, 249, 159, 89, 9, 177, 15, 165, 62, 4>>
    [] c = <<0, 1, 1, 255, 255, 0>> ->
      <<85, 219, 143, 233, 68, 85, 132, 32, 179, 119, 30, 176, 161, 46, 35, 102, 129, 243, 29, 38, 24, 226, 86, 113, 37, 43, 163, 219, 108, 28, 34, 160>>
    [] c = <<0, 1, 1, 255, 255, 1>> ->
      <<13, 80, 0, 149, 85, 248, 123, 195, 184, 75, 17, 251, 91, 1, 171, 24, 190, 189, 111, 41, 123, 161, 240, 32, 222, 194, 4, 98, 237, 245, 74, 192>>
    [] c = <<0, 1, 1, 255, 255, 255>> ->
      <<181, 113, 143, 223, 157, 232, 254, 17, 88, 125, 208, 159, 56, 250, 34, 98, 48, 117, 36, 11, 71, 147, 185, 189, 71, 198, 129, 36, 238, 48, 226, 53>>
    [] c = <<0, 1, 255, 0, 0, 0>> ->
      <<143, 23, 239, 255, 21, 70, 230, 93, 241, 110, 114, 97, 116, 95, 181, 250, 74, 66, 50, 129, 197, 166, 67, 209, 225, 2, 189, 142, 185, 177, 182, 223>>
    [] c = <<0, 1, 255, 0, 0, 1>> ->
      <<211, 56, 155, 252, 222, 64, 176, 153, 100, 255, 220, 13, 184, 168, 63, 37, 28, 113, 110, 90, 127, 214, 23, 46, 187, 130, 197, 56, 219, 57, 153, 212>>
    [] c = <<0, 1, 255, 0, 0, 255>> ->
      <<227, 171, 84, 114, 31, 73, 181, 91, 100, 170, 101, 140, 109, 8, 175, 245, 29, 56, 56, 251, 141, 221, 40, 225, 16, 218, 52, 7, 7, 190, 213, 144>>
    [] c = <<0, 1, 255, 0, 1, 0>> ->
      <<34, 238, 237, 157, 108, 2, 230, 66, 227, 99, 121, 251, 241, 129, 68, 177, 149, 138, 78, 38, 8, 19, 214, 211, 88, 91, 118, 152, 153, 255, 80, 14>>
    [] c = <<0, 1, 255, 0, 1, 1>> ->
      <<109, 104, 125, 165, 62, 46, 25, 83, 40, 91, 174, 1, 166, 167, 220, 100, 11, 127, 210, 179, 81, 165, 135, 95, 16, 101, 60, 154, 196, 240, 25, 232>>
    [] c = <<0, 1, 255, 0, 1, 255>> ->
      <<78, 127, 63, 91, 175, 244, 96, 138, 240, 238, 188, 24, 223, 229, 154, 174, 48, 57, 246, 147, 79, 122, 82, 70, 197, 45, 46, 137, 81, 246, 182, 133>>
    [] c = <<0, 1, 255, 0, 255, 0>> ->
      <<132, 73, 251, 132, 33, 254, 76, 253, 5, 16, 71, 188, 227, 191, 1, 25, 174, 20, 150, 206, 167, 180, 89, 19, 80, 178, 146, 170, 213, 186, 220, 132>>
    [] c = <<0, 1, 255, 0, 255, 1>> ->
      <<145, 19, 252, 92, 63, 152, 165, 151, 203, 228, 16, 83, 177, 253, 153, 125, 211, 146, 97, 175, 250, 100, 4, 17, 205, 215, 66, 169, 133, 101, 155, 110>>
    [] c = <<0, 1, 255, 0, 255, 255>> ->
      <<229, 169, 241, 17, 164, 2, 138, 69, 176, 197, 220, 233, 90, 2, 41, 171, 197, 69, 186, 148, 253, 80, 60, 116, 238, 14, 213, 90, 225, 117, 129, 30>>
    [] c = <<0, 1, 255, 1, 0, 0>> ->
      <<254, 153, 62, 183, 5, 99, 253, 246, 51, 250, 246, 110, 182, 58, 225, 21, 102, 33, 101, 0, 169, 82, 56, 186, 228, 20, 94, 231, 251, 192, 241, 244>>
    [] c = <<0, 1, 255, 1, 0, 1>> ->
      <<159, 146, 102, 36, 86, 164, 103, 134, 50, 78, 85, 11, 184, 33, 1, 44, 232, 40, 169, 70, 6, 112, 81, 178, 226, 161, 213, 243, 190, 15, 50, 185>>
    [] c = <<0, 1, 255, 1, 0, 255>> ->
      <<149, 227, 114, 188, 53, 40, 39, 64, 111, 33, 195, 226, 157, 10, 122, 82, 177, 34, 97, 21, 122, 248, 198, 12, 198, 5, 161, 143, 192, 243, 191, 230>>
    [] c = <<0, 1, 255, 1, 1, 0>> ->
      <<254, 57, 120, 73, 130, 248, 181, 142, 5, 212, 227, 239, 22, 83, 17, 183, 40, 206, 188, 242, 50, 162, 147, 191, 150, 130, 1, 218, 116, 77, 21, 157>>
    [] c = <<0, 1, 255, 1, 1, 1>> ->
      <<130, 152, 156, 109, 168, 78, 210, 102, 12, 244, 193, 23, 157, 149, 185, 240, 95, 131, 22, 210, 230, 174, 54, 133, 77, 153, 12, 3, 95, 212, 90, 63>>
    [] c = <<0, 1, 255, 1, 1, 255>> ->
      <<12, 172, 168, 165, 157, 196, 77, 231, 238, 32, 56, 186, 231, 191, 43, 183, 180, 158, 251, 255, 157, 245, 148, 191, 87, 26, 248, 226, 68, 222, 33, 49>>
    [] c = <<0, 1, 255, 1, 255, 0>> ->
      <<98, 246, 178, 122, 57, 141, 61, 9, 81, 164, 49, 105, 228, 164, 104, 88, 66, 130, 53, 130, 85, 213, 52, 27, 153, 136, 112, 179, 252, 254, 65, 210>>
    [] c = <<0, 1, 255, 1, 255, 1>> ->
      <<242, 188, 178, 17, 121, 223, 26, 108, 155, 227, 149, 87, 105, 13, 110, 67, 113, 255, 65, 115, 162, 127, 7, 49, 110, 103, 82, 162, 168, 185, 191, 6>>
    [] c = <<0, 1, 255, 1, 255, 255>> ->
      <<168, 46, 87, 218, 147, 107, 215, 232, 83, 241, 190, 182, 93, 76, 83, 129, 18, 119, 55, 224, 84, 171, 192, 150, 79, 148, 19, 183, 148, 205, 57, 214>>
    [] c = <<0, 1, 255, 255, 0, 0>> ->
      <<182, 175, 63, 61, 10, 133, 235, 193, 4, 48, 158, 111, 32, 84, 53, 184, 161, 65, 213, 223, 215, 103, 223, 60, 223, 251, 133, 71, 59, 3, 112, 185>>
    [] c = <<0, 1, 255, 255, 0, 1>> ->
      <<18, 207, 132, 121, 224, 143, 18, 182, 192, 218, 158, 109, 222, 141, 4, 212, 0, 165, 174, 59, 7, 67, 59, 144, 30, 120, 189, 85, 177, 171, 10, 246>>
    [] c = <<0, 1, 255, 255, 0, 255>> ->
      <<179, 196, 197, 239, 226, 82, 103, 18, 71, 192, 94, 157, 200, 31, 136, 90, 118, 94, 231, 43, 90, 154, 254, 165, 174, 202, 218, 6, 86, 168, 205, 231>>
    [] c = <<0, 1, 255, 255, 1, 0>> ->
      <<191, 107, 119, 111, 9, 248, 47, 199, 225, 69, 139, 107, 117, 226, 170, 192, 145, 250, 68, 188, 40, 44, 222, 132, 15, 161, 230, 205, 245, 193, 220, 92>>
    [] c = <<0, 1, 255, 255, 1, 1>> ->
      <<122, 135, 198, 185, 189, 20, 182, 232, 108, 124, 169, 44, 232, 245, 14, 17, 166, 62, 232, 57, 169, 187, 51, 210, 36, 89, 189, 85, 142, 137, 122, 112>>
    [] c = <<0, 1, 255, 255, 1, 255>> ->
      <<201, 20, 164, 11, 73, 105, 180, 248, 104, 191, 125, 68, 84, 218, 114, 234, 135, 128, 131, 234, 70, 16, 31, 68, 142, 254, 161, 217, 67, 114, 253, 181>>
    [] c = <<0, 1, 255, 255, 255, 0>> ->
      <<205, 236, 43, 190, 160, 153, 89, 108, 241, 117, 126, 54, 166, 153, 139, 111, 102, 56, 3, 141, 110, 189, 1, 32, 188, 200, 12, 64, 168, 84, 191, 119>>
    [] c = <<0, 1, 255, 255, 255, 1>> ->
      <<185, 227, 183, 168, 92, 151, 92, 13, 5, 173, 19, 83, 201, 248, 91, 111, 78, 1, 4, 118, 244, 78, 59, 158, 82, 178, 245, 179, 103, 2, 148, 149>>
    [] c = <<0, 1, 255, 255, 255, 255>> ->
      <<33, 221, 77, 104, 45, 99, 176, 201, 11, 84, 22, 189, 111, 173, 70, 142, 23, 148, 188, 210, 198, 4, 172, 213, 187, 4, 37, 233, 107, 240, 79, 59>>
    [] c = <<0, 255, 0, 0, 0, 0>> ->
      <<219, 57, 16, 197, 194, 226, 78, 185, 64, 33, 144, 190, 182, 222, 44, 219, 48, 54, 144, 180, 225, 67, 40, 49, 116, 65, 204, 237, 249, 225, 218, 80>>
    [] c = <<0, 255, 0, 0, 0, 1>> ->
      <<237, 162, 127, 19, 167, 233, 95, 182, 235, 106, 142, 1, 146, 233, 205, 164, 100, 132, 62, 227, 237, 135, 9, 54, 220, 221, 46, 185, 169, 251, 111, 220>>
    [] c = <<0, 255, 0, 0, 0, 255>> ->
      <<41, 149, 62, 216, 162, 116, 186, 101, 25, 59, 28, 123, 193, 135, 88, 30, 119, 63, 129, 203, 180, 246, 210, 134, 163, 75, 245, 207, 178, 63, 1, 138>>
    [] c = <<0, 255, 0, 0, 1, 0>> ->
      <<24, 75, 44, 205, 92, 230, 24, 45, 213, 25, 249, 16, 233, 114, 157, 11, 189, 178, 63, 190, 231, 56, 130, 158, 25, 214, 10, 136, 180, 124, 178, 98>>
    [] c = <<0, 255, 0, 0, 1, 1>> ->
      <<219, 130, 44, 22, 44, 39, 60, 68, 12, 0, 96, 72, 173, 59, 196, 3, 53, 174, 153, 169, 182, 127, 218, 92, 15, 235, 87, 120, 0, 42, 215, 192>>
    [] c = <<0, 255, 0, 0, 1, 255>> ->
      <<189, 14, 223, 115, 212, 231, 17, 202, 252, 37, 255, 217, 150, 146, 26, 251, 178, 199, 174, 186, 207, 11, 68, 38, 190, 134, 56, 97, 177, 86, 111, 216>>
    [] c = <<0, 255, 0, 0, 255, 0>> ->
      <<78, 220, 154, 140, 175, 177, 21, 23, 8, 240, 15, 95, 75, 40, 124, 86, 221, 118, 67, 22, 5, 106, 219, 126, 212, 118, 93, 161, 38, 42, 26, 111>>
    [] c = <<0, 255, 0, 0, 255, 1>> ->
      <<142, 79, 150, 77, 40, 79, 72, 252, 139, 6, 237, 58, 19, 201, 150, 243, 178, 135, 46, 33, 165, 140, 143, 72, 37, 160, 163, 235, 117, 243, 144, 150>>
    [] c = <<0, 255, 0, 0, 255, 255>> ->
      <<201, 47, 210, 203, 240, 118, 63, 32, 43, 193, 28, 196, 109, 100, 225, 63, 59, 79, 61, 252, 20, 157, 237, 108, 255, 96, 247, 226, 212, 151, 167, 137>>
    [] c = <<0, 255, 0, 1, 0, 0>> ->
      <<99, 104, 179, 159, 169, 134, 251, 4, 90, 188, 201, 85, 19, 213, 1, 168, 235, 148, 70, 149, 51, 82, 139, 106, 63, 164, 245, 131, 236, 76, 124, 175>>
    [] c = <<0, 255, 0, 1, 0, 1>> ->
      <<62, 38, 187, 227, 164, 23, 230, 76, 186, 43, 12, 71, 181, 105, 250, 90, 161, 210, 28, 140, 217, 74, 146, 204, 156, 193, 140, 63, 206, 81, 90, 84>>
    [] c = <<0, 255, 0, 1, 0, 255>> ->
      <<253, 49, 142, 80, 29, 204, 190, 156, 93, 54, 14, 121, 101, 157, 34, 47, 90, 161, 238, 166, 145, 71, 8, 127, 243, 200, 204, 29, 254, 44, 76, 180>>
    [] c = <<0, 255, 0, 1, 1, 0>> ->
      <<98, 107, 4, 57, 203, 104, 21, 131, 31, 197, 187, 210, 61, 117, 158, 40, 96, 216, 104, 120, 216, 33, 4, 115, 49, 203, 172, 228, 56, 122, 166, 198>>
    [] c = <<0, 255, 0, 1, 1, 1>> ->
      <<184, 80, 148, 47, 194, 67, 85, 184, 103, 37, 122, 174, 150, 117, 135, 59, 117, 78, 22, 175, 15, 252, 255, 27, 122, 141, 160, 51, 60, 114, 179, 118>>
    [] c = <<0, 255, 0, 1, 1, 255>> ->
      <<199, 150, 29, 125, 10, 146, 83, 201, 100, 226, 252, 21, 70, 81, 93, 168, 193, 34, 192, 148, 32, 180, 154, 216, 32, 191, 175, 106, 228, 218, 244, 225>>
    [] c = <<0, 255, 0, 1, 255, 0>> ->
      <<53, 11, 93, 108, 157, 3, 9, 131, 79, 19, 154, 242, 183, 109, 67, 233, 60, 90, 184, 75, 51, 214, 115, 133, 82, 140, 93, 210, 173, 16, 195, 100>>
    [] c = <<0, 255, 0, 1, 255, 1>> ->
      <<220, 129, 178, 183, 117, 41, 197, 161, 251, 21, 54, 246, 133, 162, 147, 87, 155, 216, 1, 56, 184, 39, 21, 58, 22, 165, 133, 184, 14, 104, 58, 22>>
    [] c = <<0, 255, 0, 1, 255, 255>> ->
      <<67, 65, 9, 25, 240, 94, 99, 194, 220, 119, 61, 72, 167, 248, 235, 81, 74, 45, 206, 190, 81, 193, 226, 24, 199, 82, 121, 248, 80, 182, 193, 178>>
    [] c = <<0, 255, 0, 255, 0, 0>> ->
      <<215, 9, 93, 158, 29, 177, 133, 79, 152, 154, 149, 70, 82, 117, 217, 35, 200, 249, 100, 173, 121, 203, 250, 79, 188, 82, 25, 232, 231, 90, 221, 11>>
    [] c = <<0, 255, 0, 255, 0, 1>> ->
      <<138, 88, 242, 140, 39, 193, 243, 184, 67, 160, 172, 11, 247, 87, 164, 98, 213, 156, 119, 200, 158, 225, 85, 116, 27, 194, 206, 48, 210, 132, 237, 114>>
    [] c = <<0, 255, 0, 255, 0, 255>> ->
      <<71, 227, 124, 102, 118, 119, 17, 162, 200, 133, 210, 4, 44, 174, 75, 41, 105, 236, 128, 11, 70, 191, 212, 93, 11, 66, 46, 98, 199, 124, 100, 16>>
    [] c = <<0, 255, 0, 255, 1, 0>> ->
      <<18, 84, 55, 183, 175, 204, 79, 225, 231, 80, 237, 175, 171, 228, 49, 95, 159, 60, 224, 187, 183, 135, 193, 40, 91, 77, 36, 225, 16, 175, 246, 8>>
    [] c = <<0, 255, 0, 255, 1, 1>> ->
      <<178, 61, 80, 236, 66, 117, 145, 23, 162, 242, 1, 32, 144, 209, 225, 178, 163, 131, 60, 40, 16, 187, 150, 2, 49, 82, 86, 67, 165, 202, 61, 72>>
    [] c = <<0, 255, 0, 255, 1, 255>> ->
      <<130, 148, 38, 235, 67, 141, 82, 222, 53, 150, 34, 111, 118, 1, 192, 139, 107, 231, 112, 252, 116, 16, 172, 104, 44, 84, 61, 30, 240, 32, 191, 98>>
    [] c = <<0, 255, 0, 255, 255, 0>> ->
      <<154, 187, 43, 39, 130, 179, 10, 78, 115, 188, 205, 116, 92, 228, 228, 45, 184, 127, 222, 177, 208, 151, 248, 249, 60, 118, 111, 90, 183, 31, 176, 136>>
    [] c = <<0, 255, 0, 255, 255, 1>> ->
      <<131, 182, 86, 17, 219, 82, 106, 100, 158, 184, 176, 36, 224, 27, 28, 75, 28, 63, 210, 250, 10, 28, 156, 130, 183, 191, 204, 147, 158, 33, 218, 133>>
    [] c = <<0, 255, 0, 255, 255, 255>> ->
      <<170, 234, 209, 44, 82, 153, 202, 238, 251, 35, 34, 27, 207, 22, 103, 80, 12, 9, 47, 64, 114, 167, 209, 95, 41, 168, 239, 164, 197, 108, 218, 170>>
    [] c = <<0, 255, 1, 0, 0, 0>> ->
      <<47, 212, 38, 77, 49, 241, 97, 153, 204, 69, 65, 228, 146, 73, 106, 164, 100, 233, 222, 15, 49, 255, 27, 164, 158, 123, 107, 217, 112, 29, 54, 54>>
    [] c = <<0, 255, 1, 0, 0, 1>> ->
      <<237, 20, 174, 179, 143, 137, 221, 157, 8, 161, 69, 210, 191, 174, 192, 72, 85, 170, 40, 50, 218, 174, 238, 68, 75, 238, 154, 19, 181, 0, 5, 171>>
    [] c = <<0, 255, 1, 0, 0, 255>> ->
      <<80, 6, 144, 0, 129, 243, 190, 152, 180, 89, 200, 31, 211, 219, 50, 142, 74, 10, 80, 167, 12, 28, 194, 114, 121, 35, 74, 11, 8, 71, 177, 75>>
    [] c = <<0, 255, 1, 0, 1, 0>> ->
      <<141, 105, 38, 134, 208, 196, 112, 113, 160, 4, 205, 133, 98, 96, 228, 0, 13, 134, 81, 236, 61, 218, 96, 249, 63, 180, 14, 70, 253, 153, 42, 27>>
    [] c = <<0, 255, 1, 0, 1, 1>> ->
      <<169, 33, 138, 174, 124, 130, 233, 163, 189, 184, 217, 70, 229, 141, 10, 141, 92, 63, 144, 32, 123, 196, 179, 251, 42, 244, 42, 196, 94, 126, 187, 19>>
    [] c = <<0, 255, 1, 0, 1, 255>> ->
      <<245, 30, 160, 43, 181, 142, 66, 4, 132, 14, 218, 230, 14, 245, 160, 5, 197, 189, 145, 75, 214, 168, 4, 54, 149, 20, 26, 80, 62, 190, 94, 160>>
    [] c = <<0, 255, 1, 0, 255, 0>> ->
      <<62, 130, 240, 171, 236, 218, 5, 232, 182, 136, 221, 11, 84, 142, 4, 105, 98, 95, 40, 114, 7, 5, 224, 141, 135, 241, 17, 175, 203, 26, 149, 0>>
    [] c = <<0, 255, 1, 0, 255, 1>> ->
      <<24, 30, 36, 91, 225, 223, 153, 207, 142, 97, 0, 136, 186, 36, 97, 214, 26, 42, 68, 67, 94, 116, 195, 127, 201, 114, 114, 246, 84, 126, 57, 213>>
    [] c = <<0, 255, 1, 0, 255, 255>> ->
      <<220, 4, 53, 83, 1, 89, 48, 76, 47, 178, 129, 188, 58, 25, 226, 201, 12, 151, 235, 54, 7, 216, 12, 128, 244, 149, 211, 64, 246, 39, 142, 197>>
    [] c = <<0, 255, 1, 1, 0, 0>> ->
      <<183, 168, 59, 83, 182, 236, 74, 205, 230, 80, 202, 251, 114, 163, 185, 147, 196, 103, 124, 70, 206, 209, 38, 49, 20, 15, 191, 171, 128, 147, 35, 179>>
    [] c = <<0, 255, 1, 1, 0, 1>> ->
      <<59, 105, 77, 238, 82, 200, 81, 122, 175, 183, 250, 70, 234, 148, 255, 164, 191, 163, 58, 113, 209, 169, 50, 5, 57, 231, 154, 44, 27, 66, 27, 115>>
    [] c = <<0, 255, 1, 1, 0, 255>> ->
      <<18, 216, 251, 176, 175, 226, 61, 225, 90, 203, 200, 228, 192, 146, 165, 207, 226, 181, 20, 219, 21, 5, 174, 92, 171, 219, 39, 173, 49, 50, 7, 237>>
    [] c = <<0, 255, 1, 1, 1, 0>> ->
      <<135, 94, 21, 117, 227, 157, 29, 57, 117, 201, 87, 15, 219, 41, 112, 53, 181, 244, 195, 216, 100, 13, 209, 40, 35, 131, 56, 53, 122, 22, 253, 254>>
    [] c = <<0, 255, 1, 1, 1, 1>> ->
      <<254, 130, 111, 230, 82, 207, 22, 128, 136, 225, 173, 151, 248, 150, 230, 30, 128, 205, 225, 224, 108, 127, 29, 104, 252, 170, 52, 118, 18, 116, 114, 200>>
    [] c = <<0, 255, 1, 1, 1, 255>> ->
      <<235, 28, 161, 37, 95, 204, 106, 138, 251, 99, 224, 107, 229, 205, 1, 186, 240, 235, 110, 48, 196, 51, 200, 214, 202, 200, 238, 158, 208, 60, 70, 35>>
    [] c = <<0, 255, 1, 1, 255, 0>> ->
      <<112, 243, 114, 241, 207, 9, 53, 5, 142, 208, 70, 114, 42, 218, 192, 77, 17, 140, 247, 121, 89, 204, 53, 137, 151, 117, 149, 193, 198, 66, 198, 65>>
    [] c = <<0, 255, 1, 1, 255, 1>> ->
      <<155, 197, 30, 193, 24, 180, 248, 85, 151, 204, 104, 119, 47, 191, 77, 80, 235, 140, 69, 73, 170, 13, 72, 158, 87, 124, 56, 75, 56, 230, 66, 234>>
    [] c = <<0, 255, 1, 1, 255, 255>> ->
      <<93, 1, 122, 98, 5, 144, 117, 19, 194, 153, 241, 105, 122, 62, 109, 173, 114, 141, 58, 242, 34, 187, 29, 70, 255, 89, 249, 74, 61, 130, 222, 62>>
    [] c = <<0, 255, 1, 255, 0, 0>> ->
      <<67, 138, 165, 224, 246, 115, 174, 172, 219, 124, 44, 55, 123, 233, 100, 8, 220, 91, 55, 36, 67, 159, 91, 185, 123, 148, 32, 177, 136, 148, 136, 150>>
    [] c = <<0, 255, 1, 255, 0, 1>> ->
      <<143, 205, 67, 179, 162, 202, 146, 35, 98, 111, 5, 186, 185, 180, 226, 35, 50, 226, 24, 251, 2, 148, 107, 249, 11, 158, 32, 232, 8, 87, 37, 202>>
    [] c = <<0, 255, 1, 255, 0, 255>> ->
      <<82, 59, 123, 70, 194, 138, 3, 255, 49, 91, 236, 79, 114, 87, 109, 67, 15, 213, 187, 123, 227, 101, 73, 137, 28, 129, 181, 178, 40, 230, 84, 14>>
    [] c = <<0, 255, 1, 255, 1, 0>> ->
      <<132, 141, 40, 39, 201, 119, 212, 196, 252, 177, 155, 255, 64, 92, 248, 214, 232, 207, 75, 69, 88, 41, 233, 211, 243, 159, 6, 115, 173, 10, 232, 203>>
    [] c = <<0, 255, 1, 255, 1, 1>> ->
      <<13, 230, 102, 112, 67, 249, 188, 110, 140, 240, 154, 126, 7, 37, 119, 147, 167, 93, 112, 109, 191, 35, 95, 219, 32, 98, 252, 127, 14, 127, 14, 78>>
    [] c = <<0, 255, 1, 255, 1, 255>> ->
      <<148, 147, 161, 72, 99, 3, 225, 250, 171, 111, 255, 88, 69, 107, 232, 202, 219, 194, 203, 36, 7, 246, 153, 208, 183, 58, 207, 187, 205, 16, 10, 112>>
    [] c = <<0, 255, 1, 255, 255, 0>> ->
      <<139, 72, 110, 94, 198, 216, 219, 206, 27, 30, 89, 76, 53, 11, 56, 197, 30, 56, 190, 233, 65, 96, 250, 51, 249, 148, 176, 124, 222, 238, 222, 138>>
    [] c = <<0, 255, 1, 255, 255, 1>> ->
      <<130, 87, 190, 45, 149, 200, 102, 195, 212, 130, 130, 184, 148, 181, 181, 73, 99, 78, 254, 209, 251, 160, 83, 102, 219, 224, 179, 187, 75, 72, 246, 86>>
    [] c = <<0, 255, 1, 255, 255, 255>> ->
      <<218, 56, 58, 113, 152, 252, 49, 225, 13, 50, 7, 119, 208, 154, 58, 68, 74, 163, 7, 29, 179, 90, 207, 200, 150, 6, 138, 110, 143, 171, 4, 254>>
    [] c = <<0, 255, 255, 0, 0, 0>> ->
      <<165, 143, 115, 119, 96, 16, 169, 5, 246, 240, 143, 242, 54, 76, 2, 117, 4, 148, 231, 226, 122, 57, 15, 155, 191, 198, 226, 202, 157, 187, 36, 253>>
    [] c = <<0, 255, 255, 0, 0, 1>> ->
      <<22, 185, 53, 221, 136, 64, 82, 143, 217, 89, 9, 67, 131, 132, 25, 100, 57, 21, 147, 149, 169, 254, 220, 109, 152, 66, 155, 24, 133, 39, 194, 40>>
    [] c = <<0, 255, 255, 0, 0, 255>> ->
      <<15, 52, 32, 228, 186, 156, 97, 221, 245, 150, 197, 88, 51, 97, 32, 191, 190, 198, 234, 213, 145, 27, 216, 179, 84, 56, 253, 100, 86, 220, 116, 165>>
    [] c = <<0, 255, 255, 0, 1, 0>> ->
      <<22, 23, 170, 255, 160, 163, 250, 190, 21, 118, 131, 147, 1, 110, 155, 215, 39, 182, 2, 211, 78, 231, 195, 68, 141, 252, 63, 59, 150, 153, 231, 151>>
    [] c = <<0, 255, 255, 0, 1, 1>> ->
      <<137, 112, 207, 105, 250, 245, 86, 178, 246, 223, 118, 153, 132, 188, 165, 164, 127, 236, 75, 220, 29, 168, 64, 29, 10, 21, 40, 122, 101, 148, 211, 86>>
    [] c = <<0, 255, 255, 0, 1, 255>> ->
      <<102, 174, 53, 93, 57, 201, 185, 89, 58, 8, 46, 52, 178, 240, 22, 80, 101, 153, 253, 46, 3, 169, 255, 216, 69, 97, 80, 120, 30, 38, 228, 235>>
    [] c = <<0, 255, 255, 0, 255, 0>> ->
      <<130, 212, 254, 86, 218, 68, 179, 142, 30, 94, 158, 45, 255, 176, 108, 171, 49, 147, 128, 134, 152, 220, 107, 46, 70, 37, 157, 82, 3, 8, 136, 83>>
    [] c = <<0, 255, 255, 0, 255, 1>> ->
      <<245, 7, 207, 78, 64, 100, 58, 16, 137, 167, 147, 61, 179, 222, 120, 158, 3, 235, 160, 38, 203, 79, 221, 30, 252, 35, 208, 110, 183, 86, 79, 138>>
    [] c = <<0, 255, 255, 0, 255, 255>> ->
      <<171, 145, 252, 254, 22, 173, 18, 224, 58, 90, 102, 101, 34, 51, 49, 78, 78, 169, 169, 203, 64, 94, 212, 99, 91, 77, 64, 106, 27, 176, 62, 249>>
    [] c = <<0, 255, 255, 1, 0, 0>> ->
      <<154, 229, 134, 210, 163, 120, 84, 9, 140, 132, 144, 89, 170, 197, 156, 205, 175, 52, 191, 23, 50, 128, 91, 167, 43, 62, 122, 241, 82, 118, 12, 99>>
    [] c = <<0, 255, 255, 1, 0, 1>> ->
      <<130, 89, 87, 49, 243, 3, 189, 152, 201, 65, 31, 31, 123, 124, 222, 206, 255, 212, 191, 249, 247, 184, 157, 38, 29, 232, 197, 128, 104, 159, 178, 75>>
    [] c = <<0, 255, 255, 1, 0, 255>> ->
      <<244, 239, 189, 24, 238, 209, 18, 146, 80, 213, 0, 224, 180, 81, 36, 62, 56, 101, 242, 100, 63, 136, 150, 147, 19, 131, 210, 32, 79, 215, 25, 130>>
    [] c = <<0, 255, 255, 1, 1, 0>> ->
      <<82, 185, 216, 172, 219, 234, 191, 216, 115, 181, 59, 55, 192, 192, 222, 222, 240, 210, 11, 31, 197, 196, 85, 0, 135, 241, 171, 73, 221, 10, 31, 115>>
    [] c = <<0, 255, 255, 1, 1, 1>> ->
      <<35, 48, 237, 138, 59, 58, 195, 75, 32, 243, 50, 204, 135, 224, 198, 124, 65, 200, 147, 26, 113, 165, 232, 178, 29, 183, 79, 115, 66, 145, 22, 225>>
    [] c = <<0, 255, 255, 1, 1, 255>> ->
      <<129, 240, 161, 84, 17, 41, 77, 104, 40, 36, 55, 116, 55, 154, 209, 137, 97, 5, 202, 145, 179, 233, 42, 192, 152, 163, 238, 10, 152, 12, 26, 235>>
    [] c = <<0, 255, 255, 1, 255, 0>> ->
      <<30, 43, 147, 89, 175, 165, 93, 75, 42, 107, 108, 162, 24, 75, 145, 196, 253, 169, 169, 247, 141, 242, 143, 87, 22, 231, 254, 126, 212, 47, 107, 179>>
    [] c = <<0, 255, 255, 1, 255, 1>> ->
      <<93, 17, 243, 5, 27, 208, 177, 43, 31, 139, 122, 199, 206, 60, 245, 14, 45, 71, 160, 5, 26, 43, 26, 41, 41, 13, 8, 149, 84, 49, 219, 68>>
    [] c = <<0, 255, 255, 1, 255, 255>> ->
      <<68, 140, 229, 146, 28, 122, 96, 224, 179, 213, 36, 242, 114, 30, 168, 180, 166, 164, 171, 70, 147, 1, 148, 44, 51, 94, 179, 48, 46, 203, 5, 89>>
    [] c = <<0, 255, 255, 255, 0, 0>> ->
      <<46, 101, 149, 94, 159, 143, 227, 219, 40, 230, 43, 17, 214, 147, 211, 243, 51, 26, 242, 104, 182, 36, 207, 10, 124, 21, 76, 241, 37, 197, 54, 94>>
    [] c = <<0, 255, 255, 255, 0, 1>> ->
      <<235, 213, 153, 10, 13, 18, 246, 100, 208, 96, 21, 86, 86, 124, 7, 95, 61, 40, 69, 82, 83, 30, 31, 173, 22, 117, 22, 152, 218, 169, 31, 179>>
    [] c = <<0, 255, 255, 255, 0, 255>> ->
      <<86, 56, 69, 210, 163, 21, 246, 193, 242, 139, 109, 38, 176, 230, 2, 86, 59, 169, 91, 193, 205, 220, 202, 77, 55, 73, 156, 209, 35, 49, 45, 254>>
    [] c = <<0, 255, 255, 255, 1, 0>> ->
      <<207, 110, 197, 195, 86, 107, 248, 22, 227, 201, 4, 168, 136, 232, 229, 229, 251, 82, 227, 47, 163, 225, 55, 83, 155, 52, 36, 74, 227, 149, 16, 180>>
    [] c = <<0, 255, 255, 255, 1, 1>> ->
      <<218, 134, 105, 221, 124, 192, 66, 241, 232, 157, 100, 82, 97, 42, 195, 190, 104, 89, 247, 52, 79, 12, 93, 170, 217, 163, 10, 8, 173, 68, 184, 38>>
    [] c = <<0, 255, 255, 255, 1, 255>> ->
      <<165, 208, 39, 149, 106, 63, 106, 207, 233, 150, 128, 140, 190, 211, 149, 163, 147, 88, 39, 120, 120, 43, 23, 73, 111, 130, 23, 91, 28, 123, 243, 206>>
    [] c = <<0, 255, 255, 255, 255, 0>> ->
      <<141, 218, 176, 123, 60, 189, 87, 121, 169, 203, 124, 5, 240, 186, 162, 57, 192, 242, 82, 78, 106, 184, 69, 122, 22, 169, 77, 21, 31, 238, 40, 166>>
    [] c = <<0, 255, 255, 255, 255, 1>> ->
      <<223, 238, 241, 75, 201, 93, 205, 245, 127, 170, 79, 226, 198, 227, 250, 49, 43, 110, 129, 214, 91, 206, 235, 231, 192, 129, 5, 203, 96, 105, 38, 177>>
    [] c = <<0, 255, 255, 255, 255, 255>> ->
      <<194, 179, 207, 197, 181, 72, 84, 213, 213, 58, 226, 219, 55, 111, 220, 233, 111, 123, 192, 243, 111, 160, 92, 72, 56, 187, 106, 142, 42, 96, 237, 71>>
    [] c = <<1, 0, 0, 0, 0, 0>> ->
      <<54, 193, 89, 215, 107, 82, 224, 62, 73, 99, 99, 96, 124, 89, 64, 34, 127, 98, 244, 224, 72, 223, 52, 75, 5, 1, 89, 188, 151, 187, 163, 215>>
    [] c = <<1, 0, 0, 0, 0, 1>> ->
      <<17, 99, 93, 244, 83, 35, 100, 229, 250, 1, 172, 149, 64, 86, 61, 154, 131, 63, 136, 25, 148, 244, 210, 243, 174, 42, 46, 156, 135, 104, 1, 99>>
    [] c = <<1, 0, 0, 0, 0, 255>> ->
      <<179, 127, 203, 199, 14, 106, 227, 50, 15, 11, 87, 252, 194, 69, 216, 176, 130, 97, 76, 145, 250, 220, 244, 95, 50, 40, 24, 36, 148, 210, 242, 158>>
    [] c = <<1, 0, 0, 0, 1, 0>> ->
      <<169, 13, 69, 99, 198, 160, 174, 4, 23, 171, 49, 16, 241, 186, 104, 89, 40, 51, 70, 89, 84, 119, 66, 1, 176, 166, 158, 140, 69, 125, 198, 173>>
    [] c = <<1, 0, 0, 0, 1, 1>> ->
      <<113, 202, 151, 3, 175, 15, 218, 66, 184, 2, 170, 147, 239, 95, 242, 12, 201, 208, 35, 83, 225, 178, 213, 20, 172, 174, 46, 192, 47, 44, 114, 120>>
    [] c = <<1, 0, 0, 0, 1, 255>> ->
      <<155, 74, 235, 19, 126, 225, 234, 124, 212, 175, 49, 62, 137, 0, 55, 1, 163, 186, 174, 217, 40, 1, 160, 33, 124, 140, 242, 0, 246, 231, 16, 222>>
    [] c = <<1, 0, 0, 0, 255, 0>> ->
      <<91, 52, 152, 151, 120, 6, 107, 90, 3, 233, 136, 143, 249, 157, 69, 67, 69, 114, 19, 113, 121, 52, 168, 121, 74, 170, 77, 224, 41, 202, 191, 124>>
    [] c = <<1, 0, 0, 0, 255, 1>> ->
      <<14, 195, 233, 82, 43, 89, 229, 174, 117, 207, 31, 90, 173, 17, 222, 149, 96, 42, 51, 78, 176, 135, 14, 136, 198, 197, 2, 80, 73, 235, 221, 140>>
    [] c = <<1, 0, 0, 0, 255, 255>> ->
      <<52, 181, 208, 215, 52, 8, 72, 50, 222, 162, 118, 54, 15, 153, 64, 24, 244, 230, 235, 121, 33, 51, 66, 101, 229, 130, 23, 179, 96, 162, 167, 157>>
    [] c = <<1, 0, 0, 1, 0, 0>> ->
      <<145, 113, 64, 203, 221, 176, 37, 115, 123, 116, 17, 244, 12, 1, 242, 232, 195, 126, 166, 30, 119, 250, 107, 250, 175, 175, 198, 128, 166, 12, 193, 23>>
    [] c = <<1, 0, 0, 1, 0, 1>> ->
      <<123, 217, 115, 199, 50, 217, 204, 42, 65, 70, 218, 112, 253, 43, 211, 61, 32, 236, 220, 47, 10, 127, 60, 237, 98, 23, 80, 113, 253, 81, 180, 124>>
    [] c = <<1, 0, 0, 1, 0, 255>> ->
      <<165, 62, 209, 11, 230, 236, 157, 75, 70, 206, 62, 152, 158, 215, 42, 84, 143, 52, 125, 206, 245, 106, 223, 159, 0, 156, 31, 81, 74, 55, 171, 28>>
    [] c = <<1, 0, 0, 1, 1, 0>> ->
      <<202, 219, 128, 72, 211, 137, 64, 58, 118, 209, 29, 192, 187, 217, 156, 179, 75, 11, 121, 36, 92, 213, 58, 181, 186, 181, 48, 188, 114, 64, 212, 35>>
    [] c = <<1, 0, 0, 1, 1, 1>> ->
      <<254, 49, 4, 53, 223, 98, 242, 37, 213, 66, 22, 156, 32, 171, 237, 195, 65, 109, 207, 221, 197, 149, 27, 138, 159, 182, 223, 40, 64, 81, 184, 169>>
    [] c = <<1, 0, 0, 1, 1, 255>> ->
      <<173, 156, 204, 139, 4, 228, 88, 166, 154, 135, 232, 1, 210, 46, 220, 207, 200, 181, 220, 45, 94, 197, 83, 5, 201, 209, 91, 171, 112, 164, 223, 197>>
    [] c = <<1, 0, 0, 1, 255, 0>> ->
      <<46, 105, 17, 176, 234, 5, 154, 158, 88, 243, 183, 192, 250, 33, 89, 250, 86, 21, 141, 140, 211, 21, 247, 5, 98, 136, 51, 112, 31, 116, 216, 247>>
    [] c = <<1, 0, 0, 1, 255, 1>> ->
      <<108, 16, 198, 126, 137, 4, 116, 58, 33, 6, 159, 146, 121, 48, 148, 58, 137, 219, 89, 66, 153, 113, 191, 216, 31, 115, 38, 76, 94, 249, 224, 1>>
    [] c = <<1, 0, 0, 1, 255, 255>> ->
      <<8, 36, 52, 47, 129, 85, 49, 126, 3, 238, 182, 99, 254, 170, 132, 61, 165, 59, 15, 88, 88, 46, 146, 194, 164, 184, 120, 222, 244, 31, 23, 180>>
    [] c = <<1, 0, 0, 255, 0, 0>> ->
      <<238, 2, 63, 217, 239, 151, 137, 96, 39, 143, 104, 181, 240, 139, 131, 2, 106, 206, 90, 241, 34, 2, 211, 72, 115, 68, 253, 213, 112, 119, 119, 42>>
    [] c = <<1, 0, 0, 255, 0, 1>> ->
      <<39, 102, 226, 116, 79, 85, 154, 2, 52, 16, 19, 22, 208, 219, 191, 2, 3, 90, 167, 123, 22, 50, 233, 190, 223, 197, 64, 228, 10, 37, 174, 239>>
    [] c = <<1, 0, 0, 255, 0, 255>> ->
      <<113, 255, 12, 247, 140, 171, 7, 142, 206, 117, 80, 199, 7, 168, 232, 18, 121, 107, 130, 242, 202, 23, 173, 15, 132, 253, 12, 77, 134, 110, 4, 16>>
    [] c = <<1, 0, 0, 255, 1, 0>> ->
      <<242, 196, 119, 253, 224, 211, 168, 89, 205, 211, 243, 46, 145, 134, 145, 188, 109, 80, 211, 87, 227, 133, 32, 121, 249, 148, 154, 237, 15, 119, 206, 153>>
    [] c = <<1, 0, 0, 255, 1, 1>> ->
      <<200, 7, 91, 196, 193, 168, 134, 146, 118, 198, 38, 177, 166, 97, 1, 4, 178, 76, 115, 149, 194, 50, 34, 206, 231, 222, 86, 85, 132, 49, 219, 29>>
    [] c = <<1, 0, 0, 255, 1, 255>> ->
      <<104, 211, 252, 195, 122, 191, 121, 26, 189, 51, 238, 91, 219, 219, 155, 41, 20, 246, 0, 127, 203, 232, 169, 159, 27, 138, 197, 95, 18, 232, 105, 234>>
    [] c = <<1, 0, 0, 255, 255, 0>> ->
      <<224, 164, 202, 118, 168, 134, 4, 73, 197, 101, 126, 81, 33, 35, 224, 225, 131, 224, 219, 4, 59, 3, 251, 181, 116, 163, 30, 59, 223, 28, 242, 171>>
    [] c = <<1, 0, 0, 255, 255, 1>> ->
      <<26, 126, 83, 208, 206, 160, 194, 239, 191, 33, 221, 202, 188, 232, 97, 140, 244, 72, 35, 225, 228, 62, 181, 240, 128, 47, 183, 9, 155, 115, 106, 209>>
    [] c = <<1, 0, 0, 255, 255, 255>> ->
      <<190, 79, 186, 173, 185, 246, 54, 235, 213, 167, 129, 38, 119, 48, 200, 89, 196, 129, 42, 9, 214, 230, 54, 58, 222, 202, 254, 86, 230, 188, 202, 104>>
    [] c = <<1, 0, 1, 0, 0, 0>> ->
      <<134, 162, 231, 127, 99, 11, 253, 93, 133, 151, 101, 136, 159, 162, 151, 227, 137, 62, 159, 180, 221, 32, 17, 36, 33, 22, 253, 252, 72, 170, 191, 205>>
    [] c = <<1, 0, 1, 0, 0, 1>> ->
      <<75, 228, 101, 109, 2, 215, 214, 104, 57, 144, 13, 85, 176, 111, 211, 75, 155, 9, 195, 192, 194, 195, 148, 102, 255, 41, 235, 192, 187, 133, 179, 0>>
    [] c = <<1, 0, 1, 0, 0, 255>> ->
      <<125, 188, 89, 15, 109, 92, 231, 224, 109, 243, 119, 168, 132, 238, 211, 42, 77, 112, 14, 183, 242, 225, 27, 107, 245, 174, 173, 235, 165, 36, 175, 220>>
    [] c = <<1, 0, 1, 0, 1, 0>> ->
      <<205, 11, 174, 1, 208, 152, 3, 129, 27, 122, 20, 182, 148, 97, 212, 178, 143, 141, 110, 15, 11, 119, 154, 192, 48, 173, 254, 28, 220, 13, 238, 106>>
    [] c = <<1, 0, 1, 0, 1, 1>> ->
      <<231, 150, 41, 195, 31, 84, 51, 99, 174, 33, 33, 152, 80, 111, 250, 15, 141, 44, 210, 142, 5, 225, 106, 116, 18, 242, 37, 143, 146, 81, 240, 201>>
    [] c = <<1, 0, 1, 0, 1, 255>> ->
      <<194, 21, 11, 46, 224, 124, 22, 116, 8, 34, 47, 250, 29, 51, 28, 54, 150, 79, 164, 50, 125, 63, 136, 155, 254, 74, 75, 189, 200, 5, 168, 14>>
    [] c = <<1, 0, 1, 0, 255, 0>> ->
      <<191, 254, 221, 18, 86, 152, 4, 136, 161, 19, 168, 80, 147, 244, 109, 169, 7, 228, 133, 67, 167, 67, 196, 203, 112, 84, 44, 15, 169, 155, 224, 209>>
    [] c = <<1, 0, 1, 0, 255, 1>> ->
      <<84, 94, 144, 135, 96, 248, 243, 145, 178, 213, 176, 7, 249, 68, 237, 39, 64, 34, 4, 37, 245, 166, 71, 131, 24, 147, 93, 11, 214, 173, 227, 206>>
    [] c = <<1, 0, 1, 0, 255, 255>> ->
      <<135, 21, 130, 213, 166, 238, 155, 119, 27, 67, 94, 181, 226, 255, 17, 159, 124, 190, 3, 254, 229, 37, 181, 88, 190, 133, 109, 244, 105, 114, 66, 94>>
    [] c = <<1, 0, 1, 1, 0, 0>> ->
      <<77, 63, 92, 69, 120, 182, 141, 198, 215, 7, 20, 65, 251, 127, 34, 165, 104, 103, 33, 164, 236, 31, 215, 166, 99, 38, 10, 84, 243, 194, 30, 45>>
    [] c = <<1, 0, 1, 1, 0, 1>> ->
      <<90, 42, 236, 18, 102, 223, 91, 123, 102, 52, 60, 125, 193, 3, 4, 232, 5, 128, 12, 39, 162, 76, 3, 207, 59, 96, 9, 32, 190, 166, 232, 12>>
    [] c = <<1, 0, 1, 1, 0, 255>> ->
      <<210, 137, 65, 231, 99, 114, 16, 201, 104, 82, 37, 33, 155, 65, 8, 167, 120, 90, 240, 224, 185, 243, 163, 195, 153, 128, 103, 217, 109, 120, 115, 62>>
    [] c = <<1, 0, 1, 1, 1, 0>> ->
      <<71, 26, 226, 233, 34, 231, 235, 200, 39, 56, 3, 93, 102, 135, 201, 201, 196, 22, 107, 93, 71, 36, 146, 233, 164, 72, 42, 39, 217, 142, 242, 190>>
    [] c = <<1, 0, 1, 1, 1, 1>> ->
      <<114, 15, 56, 197, 61, 194, 192, 189, 4, 247, 122, 180, 241, 226, 135, 107, 89, 164, 194, 219, 151, 200, 251, 117, 117, 136, 24, 182, 215, 57, 25, 181>>
    [] c = <<1, 0, 1, 1, 1, 255>> ->
      <<210, 6, 46, 138, 41, 137, 189, 43, 151, 178, 248, 14, 241, 158, 210, 9, 10, 209, 21, 4, 105, 191, 63, 182, 220, 206, 184, 88, 126, 87, 245, 168>>
    [] c = <<1, 0, 1, 1, 255, 0>> ->
      <<182, 187, 242, 96, 155, 133, 7, 148, 89, 206, 193, 242, 150, 132, 101, 97, 32, 105, 210, 208, 10, 44, 241, 252, 187, 123, 133, 80, 30, 153, 38, 152>>
    [] c = <<1, 0, 1, 1, 255, 1>> ->
      <<95, 84, 157, 42, 87, 25, 36, 17, 197, 125, 90, 246, 10, 118, 213, 71, 34, 5, 100, 52, 52, 27, 120, 49, 212, 250, 78, 69, 235, 205, 23, 240>>
    [] c = <<1, 0, 1, 1, 255, 255>> ->
      <<47, 70, 73, 20, 94, 52, 14, 159, 109, 45, 188, 144, 110, 132, 69, 95, 249, 14, 75, 239, 84, 6, 164, 192, 11, 112, 178, 196, 224, 126, 141, 253>>
    [] c = <<1, 0, 1, 255, 0, 0>> ->
      <<189, 159, 111, 13, 134, 28, 203, 65, 196, 227, 21, 208, 156, 16, 202, 166, 63, 71, 238, 163, 5, 89, 115, 138, 15, 249, 114, 147, 211, 69, 78, 70>>
    [] c = <<1, 0, 1, 255, 0, 1>> ->
      <<208, 176, 33, 118, 12, 91, 151, 218, 219, 143, 178, 148, 62, 234, 191, 74, 64, 72, 86, 229, 144, 48, 196, 228, 22, 32, 159, 251, 47, 135, 148, 195>>
    [] c = <<1, 0, 1, 255, 0, 255>> ->
      <<21, 146, 136, 46, 51, 108, 0, 190, 116, 182, 245, 209, 104, 65, 199, 146, 51, 195, 140, 158, 238, 149, 211, 140, 100, 166, 176, 242, 215, 59, 130, 230>>
    [] c = <<1, 0, 1, 255, 1, 0>> ->
      <<191, 68, 225, 55, 213, 209, 55, 214, 186, 192, 43, 148, 208, 130, 42, 191, 222, 102, 116, 223, 30, 41, 43, 20, 254, 25, 44, 189, 182, 18, 98, 31>>
    [] c = <<1, 0, 1, 255, 1, 1>> ->
      <<132, 16, 193, 226, 128, 193, 194, 42, 204, 178, 48, 177, 48, 191, 68, 70, 6, 59, 118, 23, 18, 208, 158, 94, 70, 106, 7, 184, 99, 156, 97, 101>>
    [] c = <<1, 0, 1, 255, 1, 255>> ->
      <<219, 16, 97, 133, 203, 44, 240, 45, 192, 200, 247, 237, 205, 201, 9, 137, 189, 60, 21, 168, 77, 62, 217, 20, 177, 112, 143, 238, 211, 3, 72, 135>>
    [] c = <<1, 0, 1, 255, 255, 0>> ->
      <<143, 112, 176, 27, 198, 243, 193, 167, 253, 29, 53, 67, 53, 167, 73, 196, 158, 20, 75, 15, 146, 114, 153, 238, 111, 126, 32, 18, 235, 98, 167, 237>>
    [] c = <<1, 0, 1, 255, 255, 1>> ->
      <<191, 203, 32, 175, 61, 188, 198, 213, 196, 214, 46, 35, 208, 214, 32, 168, 7, 25, 41, 90, 110, 13, 229, 13, 80, 6, 200, 239, 225, 222, 177, 194>>
    [] c = <<1, 0, 1, 255, 255, 255>> ->
      <<97, 166, 137, 12, 221, 227, 99, 204, 148, 120, 0, 34, 203, 29, 254, 62, 67, 173, 186, 52, 89, 109, 82, 63, 30, 3, 79, 80, 180, 162, 204, 114>>
    [] c = <<1, 0, 255, 0, 0, 0>> ->
      <<226, 38, 160, 111, 231, 171, 151, 239, 128, 164, 129, 83, 53, 163, 91, 75, 193, 105, 238, 187, 156, 66, 67, 141, 54, 148, 178, 3, 140, 46, 84, 209>>
    [] c = <<1, 0, 255, 0, 0, 1>> ->
      <<31, 167, 129, 26, 124, 132, 144, 133, 48, 152, 26, 39, 23, 128, 92, 195, 201, 23, 26, 232, 147, 96, 62, 26, 69, 5, 130, 145, 86, 43, 148, 57>>
    [] c = <<1, 0, 255, 0, 0, 255>> ->
      <<5, 116, 233, 229, 62, 110, 1, 126, 95, 38, 33, 83, 208, 227, 217, 96, 9, 35, 213, 221, 113, 54, 107, 234, 14, 75, 105, 214, 122, 157, 97, 43>>
    [] c = <<1, 0, 255, 0, 1, 0>> ->
      <<226, 85, 48, 150, 2, 120, 205, 106, 226, 195, 3, 250, 237, 187, 202, 170, 137, 199, 153, 246, 61, 163, 70, 30, 16, 227, 18, 47, 143, 2, 55, 184>>
    [] c = <<1, 0, 255, 0, 1, 1>> ->
      <<232, 159, 16, 214, 202, 221, 208, 252, 174, 25, 20, 48, 186, 10, 148, 116, 194, 211, 137, 116, 176, 3, 112, 137, 216, 92, 85, 130, 197, 88, 16, 219>>
    [] c = <<1, 0, 255, 0, 1, 255>> ->
      <<253, 120, 151, 137, 9, 216, 246, 12, 53, 41, 223, 212, 50, 27, 1, 121, 201, 194, 236, 222, 0, 83, 216, 8, 255, 53, 7, 35, 66, 84, 184, 7>>
    [] c = <<1, 0, 255, 0, 255, 0>> ->
      <<186, 15, 161, 59, 125, 86, 215, 28, 215, 113, 47, 229, 121, 123, 62, 70, 160, 102, 150, 10, 250, 192, 225, 196, 95, 255, 82, 117, 74, 46, 248, 178>>
    [] c = <<1, 0, 255, 0, 255, 1>> ->
      <<33, 241, 79, 15, 216, 143, 221, 145, 134, 253, 114, 35, 25, 157, 87, 210, 230, 146, 62, 45, 57, 114, 105, 90, 76, 139, 90, 225, 113, 189, 216, 137>>
    [] c = <<1, 0, 255, 0, 255, 255>> ->
      <<101, 53, 210, 124, 30, 235, 221, 100, 90, 65, 152, 70, 0, 255, 227, 176, 11, 44, 1, 66, 87, 245, 160, 185, 33, 36, 97, 26, 164, 89, 6, 192>>
    [] c = <<1, 0, 255, 1, 0, 0>> ->
      <<96, 18, 161, 70, 3, 122, 47, 229, 211, 191, 233, 56, 176, 83, 13, 130, 5, 36, 54, 156, 109, 254, 92, 0, 4, 23, 56, 87, 227, 75, 145, 33>>
    [] c = <<1, 0, 255, 1, 0, 1>> ->
      <<91, 156, 199, 185, 138, 77, 78, 212, 239, 79, 167, 82, 229, 162, 180, 37, 158, 100, 231, 33, 50, 17, 6, 188, 205, 202, 252, 112, 132, 57, 7, 128>>
    [] c = <<1, 0, 255, 1, 0, 255>> ->
      <<42, 196, 64, 155, 185, 46, 196, 30, 133, 87, 21, 72, 121, 104, 208, 179, 61, 58, 23, 115, 28, 179, 19, 123, 199, 89, 92, 44, 245, 160, 95, 81>>
    [] c = <<1, 0, 255, 1, 1, 0>> ->
      <<37, 71, 141, 56, 51, 13, 164, 201, 68, 26, 199, 36, 64, 212, 19, 155, 68, 122, 238, 153, 42, 58, 157, 77, 94, 55, 243, 38, 157, 88, 153, 141>>
    [] c = <<1, 0, 255, 1, 1, 1>> ->
      <<227, 138, 44, 39, 231, 152, 241, 48, 142, 241, 26, 79, 53, 166, 150, 153, 78, 116, 133, 227, 136, 100, 94, 192, 34, 189, 226, 134, 217, 64, 247, 114>>
    [] c = <<1, 0, 255, 1, 1, 255>> ->
      <<198, 88, 177, 224, 56, 1, 223, 223, 184, 37, 182, 5, 246, 233, 16, 31, 227, 251, 162, 193, 89, 0, 91, 237, 131, 100, 69, 137, 205, 221, 103, 107>>
    [] c = <<1, 0, 255, 1, 255, 0>> ->
      <<235, 182, 51, 246, 92, 47, 232, 226, 117, 163, 245, 192, 10, 60, 184, 82, 106, 108, 245, 152, 46, 41, 21, 222, 155, 29, 122, 190, 172, 70, 130, 176>>
    [] c = <<1, 0, 255, 1, 255, 1>> ->
      <<158, 200, 255, 182, 155, 250, 158, 8, 170, 117, 91, 251, 80, 150, 178, 32, 65, 114, 4, 174, 192, 8, 114, 86, 24, 247, 89, 247, 41, 124, 158, 254>>
    [] c = <<1, 0, 255, 1, 255, 255>> ->
      <<0, 109, 175, 129, 120, 106, 106, 176, 192, 218, 191, 46, 196, 2, 89, 215, 77, 137, 179, 115, 54, 52, 121, 248, 206, 89, 103, 18, 20, 236, 135, 225>>
    [] c = <<1, 0, 255, 255, 0, 0>> ->
      <<74, 234, 51, 160, 83, 37, 230, 194, 140, 32, 170, 228, 171, 126, 134, 249, 243, 31, 81, 94, 181, 97, 58, 74, 245, 249, 98, 118, 115, 66, 34, 19>>
    [] c = <<1, 0, 255, 255, 0, 1>> ->
      <<90, 54, 53, 232, 102, 6, 203, 167, 118, 111, 71, 155, 30, 22, 218, 238, 190, 13, 232, 51, 149, 253, 121, 52, 51, 246, 70, 107, 72, 41, 60, 182>>
    [] c = <<1, 0, 255, 255, 0, 255>> ->
      <<9, 250, 250, 230, 56, 210, 18, 73, 195, 162, 116, 123, 30, 221, 39, 88, 62, 165, 32, 55, 172, 152, 195, 199, 187, 188, 14, 55, 165, 171, 85, 120>>
    [] c = <<1, 0, 255, 255, 1, 0>> ->
      <<144, 46, 57, 135, 102, 98, 7, 220, 200, 12, 130, 1, 208, 179, 234, 212, 53, 97, 159, 71, 228, 157, 44, 185, 143, 200, 44, 157, 255, 180, 255, 150>>
    [] c = <<1, 0, 255, 255, 1, 1>> ->
      <<209, 69, 113, 126, 98, 226, 83, 202, 172, 44, 89, 50, 46, 41, 200, 56, 164, 16, 158, 75, 140, 159, 248, 35, 170, 85, 10, 216, 112, 22, 143, 8>>
    [] c = <<1, 0, 255, 255, 1, 255>> ->
      <<223, 219, 83, 48, 245, 69, 23, 204, 163, 100, 195, 64, 30, 207, 33, 140, 95, 8, 83, 152, 186, 229, 171, 112, 118, 244, 179, 216, 31, 110, 227, 150>>
    [] c = <<1, 0, 255, 255, 255, 0>> ->
      <<119, 254, 99, 130, 13, 232, 48, 43, 109, 119, 160, 106, 8, 174, 198, 96, 254, 81, 134, 252, 243, 68, 26, 39, 127, 224, 223, 77, 227, 12, 34, 97>>
    [] c = <<1, 0, 255, 255, 255, 1>> ->
      <<174, 137, 164, 34, 200, 150, 14, 141, 246, 24, 124, 56, 180, 98, 55, 199, 135, 196, 145, 35, 141, 63, 39, 7, 116, 201, 196, 53, 164, 63, 198, 222>>
    [] c = <<1, 0, 255, 255, 255, 255>> ->
      <<39, 164, 88, 154, 245, 152, 36, 251, 37, 66, 52, 23, 235, 48, 204, 78, 40, 13, 137, 64, 198, 65, 158, 185, 186, 43, 29, 61, 18, 224, 252, 19>>
    [] c = <<1, 1, 0, 0, 0, 0>> ->
      <<26, 113, 121, 124, 171, 142, 210, 60, 114, 35, 59, 119, 6, 177, 102, 163, 48, 73, 228, 232, 125, 251, 197, 91, 158, 37, 47, 156, 24, 67, 236, 166>>
    [] c = <<1, 1, 0, 0, 0, 1>> ->
      <<88, 42, 66, 97, 254, 54, 165, 209, 231, 217, 91, 87, 113, 77, 104, 29, 30, 112, 193, 27, 40, 128, 113, 24, 206, 174, 26, 141, 165, 249, 180, 221>>
    [] c = <<1, 1, 0, 0, 0, 255>> ->
      <<219, 114, 48, 38, 96, 156, 198, 189, 172, 114, 231, 149, 85, 241, 123, 192, 212, 234, 153, 4, 125, 97, 41, 122, 62, 39, 227, 165, 193, 102, 203, 233>>
    [] c = <<1, 1, 0, 0, 1, 0>> ->
      <<142, 181, 151, 148, 94, 153, 119, 61, 1, 74, 175, 195, 252, 125, 26, 140, 84, 13, 125, 29, 111, 123, 32, 38, 26, 192, 187, 4, 153, 110, 210, 140>>
    [] c = <<1, 1, 0, 0, 1, 1>> ->
      <<6, 102, 177, 85, 150, 123, 30, 100, 82, 180, 173, 186, 163, 134, 246, 176, 52, 138, 232, 219, 152, 20, 231, 92, 39, 23, 65, 103, 84, 51, 110, 207>>
    [] c = <<1, 1, 0, 0, 1, 255>> ->
      <<198, 209, 198, 243, 142, 97, 40, 61, 160, 151, 227, 160, 9, 126, 243, 155, 121, 174, 24, 172, 25, 124, 217, 61, 238, 47, 116, 12, 45, 140, 84, 187>>
    [] c = <<1, 1, 0, 0, 255, 0>> ->
      <<24, 151, 8, 137, 83, 159, 19, 80, 202, 67, 72, 184, 237, 70, 102, 88, 82, 18, 105, 171, 9, 0, 28, 112, 128, 47, 85, 28, 229, 229, 42, 65>>
    [] c = <<1, 1, 0, 0, 255, 1>> ->
      <<30, 151, 127, 162, 253, 147, 168, 252, 220, 215, 96, 203, 23, 102, 86, 203, 86, 22, 215, 157, 227, 168, 28, 6, 113, 166, 241, 10, 191, 36, 221, 189>>
    [] c = <<1, 1, 0, 0, 255, 255>> ->
      <<161, 63, 76, 88, 60, 113, 254, 149, 117, 204, 117, 158, 25, 29, 143, 236, 58, 108, 73, 206, 46, 54, 107, 149, 90, 22, 104, 138, 230, 73, 159, 113>>
    [] c = <<1, 1, 0, 1, 0, 0>> ->
      <<253, 175, 80, 16, 220, 127, 8, 4, 211, 104, 121, 177, 162, 209, 26, 177, 6, 101, 125, 80, 242, 57, 187, 137, 189, 8, 114, 67, 15, 228, 29, 248>>
    [] c = <<1, 1, 0, 1, 0, 1>> ->
      <<36, 11, 49, 161, 219, 227, 34, 189, 123, 109, 126, 218, 184, 46, 216, 29, 109, 42, 26, 30, 194, 13, 206, 30, 219, 147, 2, 73, 251, 248, 137, 113>>
    [] c = <<1, 1, 0, 1, 0, 255>> ->
      <<25, 54, 34, 48, 130, 45, 69, 138, 104, 38, 97, 89, 189, 8, 139, 16, 4, 17, 146, 210, 80, 140, 181, 172, 152, 180, 236, 118, 216, 210, 116, 237>>
    [] c = <<1, 1, 0, 1, 1, 0>> ->
      <<67, 225, 153, 70, 85, 207, 84, 152, 241, 39, 9, 202, 212, 178, 23, 144, 8, 200, 18, 142, 29, 124, 248, 81, 137, 49, 151, 167, 245, 120, 182, 37>>
    [] c = <<1, 1, 0, 1, 1, 1>> ->
      <<247, 229, 151, 175, 214, 43, 252, 25, 225, 216, 80, 141, 255, 109, 113, 83, 35, 131, 211, 255, 191, 137, 36, 219, 145, 194, 218, 210, 189, 235, 135, 233>>
    [] c = <<1, 1, 0, 1, 1, 255>> ->
      <<198, 235, 210, 212, 213, 194, 29, 231, 30, 246, 137, 20, 145, 27, 110, 53, 133, 59, 100, 156, 49, 213, 70, 70, 202, 74, 129, 202, 13, 90, 178, 167>>
    [] c = <<1, 1, 0, 1, 255, 0>> ->
      <<107, 202, 147, 249, 114, 139, 169, 29, 69, 238, 97, 160, 99, 199, 218, 103, 80, 11, 228, 166, 197, 196, 70, 252, 208, 152, 9, 62, 16, 185, 32, 167>>
    [] c = <<1, 1, 0, 1, 255, 1>> ->
      <<192, 147, 73, 142, 114, 45, 78, 134, 112, 236, 214, 239, 187, 84, 187, 129, 209, 106, 128, 211, 240, 163, 205, 48, 157, 208, 79, 206, 11, 154, 240, 56>>
    [] c = <<1, 1, 0, 1, 255, 255>> ->
      <<73, 120, 243, 162, 102, 68, 222, 120, 69, 123, 63, 62, 55, 82, 196, 154, 54, 155, 175, 69, 214, 118, 1, 156, 95, 169, 196, 51, 226, 70, 150, 166>>
    [] c = <<1, 1, 0, 255, 0, 0>> ->
      <<152, 213, 193, 26, 195, 255, 239, 44, 96, 169, 71, 130, 197, 175, 126, 252, 90, 76, 92, 188, 202, 192, 220, 52, 170, 103, 227, 23, 151, 241, 246, 233>>
    [] c = <<1, 1, 0, 255, 0, 1>> ->
      <<147, 133, 174, 53, 93, 206, 225, 136, 105, 191, 69, 37, 242, 195, 217, 248, 227, 81, 231, 70, 193, 67, 123, 224, 254, 192, 117, 68, 157, 75, 21, 237>>
    [] c = <<1, 1, 0, 255, 0, 255>> ->
      <<32, 80, 69, 131, 85, 45, 58, 196, 179, 233, 235, 14, 24, 83, 244, 236, 236, 87, 49, 252, 65, 223, 239, 72, 13, 215, 215, 41, 40, 188, 212, 116>>
    [] c = <<1, 1, 0, 255, 1, 0>> ->
      <<237, 81, 77, 28, 122, 234, 142, 109, 41, 24, 165, 127, 85, 167, 157, 163, 66, 67, 89, 192, 158, 71, 101, 86, 35, 97, 69, 56, 226, 172, 212, 167>>
    [] c = <<1, 1, 0, 255, 1, 1>> ->
      <<145, 237, 249, 208, 130, 49, 67, 12, 103, 237, 156, 180, 3, 254, 215, 99, 136, 138, 175, 127, 47, 247, 237, 32, 173, 238, 57, 158, 113, 88, 63, 162>>
    [] c = <<1, 1, 0, 255, 1, 255>> ->
      <<210, 13, 242, 123, 47, 212, 222, 158, 133, 86, 193, 232, 250, 54, 229, 67, 55, 33, 226, 179, 58, 152, 179, 199, 139, 19, 3, 115, 94, 135, 239, 32>>
    [] c = <<1, 1, 0, 255, 255, 0>> ->
      <<218, 249, 102, 237, 82, 103, 16, 151, 207, 229, 72, 251, 13, 22, 160, 233, 1, 255, 7, 20, 34, 51, 146, 235, 14, 205, 87, 24, 167, 40, 119, 32>>
    [] c = <<1, 1, 0, 255, 255, 1>> ->
      <<1, 208, 252, 204, 184, 152, 64, 237, 218, 237, 9, 97, 110, 0, 204, 120, 221, 1, 115, 118, 105, 215, 19, 58, 147, 64, 88, 172, 124, 172, 227, 55>>
    [] c = <<1, 1, 0, 255, 255, 255>> ->
      <<240, 87, 66, 173, 122, 216, 214, 97, 188, 152, 221, 9, 172, 215, 19, 236, 116, 199, 29, 225, 133, 157, 189, 20, 2, 121, 6, 39, 59, 153, 48, 2>>
    [] c = <<1, 1, 1, 0, 0, 0>> ->
      <<112, 81, 236, 193, 169, 121, 2, 34, 178, 152, 142, 183, 40, 35, 24, 180, 60, 126, 194, 110, 174, 155, 38, 153, 16, 19, 121, 145, 181, 153, 174, 167>>
    [] c = <<1, 1, 1, 0, 0, 1>> ->
      <<82, 153, 23, 171, 211, 139, 143, 94, 186, 189, 190, 233, 166, 95, 4, 54, 199, 154, 70, 177, 202, 107, 222, 175, 92, 148, 170, 52, 253, 54, 207, 32>>
    [] c = <<1, 1, 1, 0, 0, 255>> ->
      <<5, 166, 230, 16, 210, 50, 52, 48, 58, 130, 28, 150, 54, 150, 95, 230, 251, 157, 47, 74, 247, 213, 125, 111, 32, 113, 99, 231, 201, 136, 172, 132>>
    [] c = <<1, 1, 1, 0, 1, 0>> ->
      <<176, 245, 157, 207, 133, 21, 157, 9, 89, 67, 88, 146, 167, 46, 180, 27, 55, 200, 154, 129, 215, 162, 72, 35, 90, 197, 101, 211, 183, 112, 223, 252>>
    [] c = <<1, 1, 1, 0, 1, 1>> ->
      <<66, 185, 200, 128, 127, 166, 112, 64, 170, 90, 150, 213, 207, 10, 112, 245, 143, 208, 26, 188, 136, 6, 239, 153, 198, 85, 73, 241, 209, 176, 195, 81>>
    [] c = <<1, 1, 1, 0, 1, 255>> ->
      <<204, 108, 122, 236, 152, 177, 143, 37, 146, 239, 192, 43, 148, 13, 40, 211, 147, 168, 89, 204, 43, 173, 53, 142, 133, 88, 143, 24, 189, 120, 164, 201>>
    [] c = <<1, 1, 1, 0, 255, 0>> ->
      <<23, 212, 102, 190, 43, 217, 120, 105, 249, 116, 219, 195, 128, 66, 105, 234, 233, 244, 61, 75, 152, 43, 41, 85, 51, 177, 16, 112, 132, 237, 79, 255>>
    [] c = <<1, 1, 1, 0, 255, 1>> ->
      <<31, 98, 165, 244, 197, 192, 249, 46, 155, 165, 203, 88, 36, 152, 216, 236, 243, 131, 213, 59, 139, 168, 178, 43, 203, 253, 18, 230, 242, 114, 60, 196>>
    [] c = <<1, 1, 1, 0, 255, 255>> ->
      <<74, 39, 252, 68, 64, 187, 13, 62, 114, 203, 141, 126, 170, 161, 118, 59, 81, 58, 80, 124, 43, 214, 77, 86, 103, 55, 22, 17, 222, 228, 224, 42>>
    [] c = <<1, 1, 1, 1, 0, 0>> ->
      <<105, 30, 2, 160, 151, 68, 241, 40, 67, 71, 180, 172, 251, 95, 23, 154, 210, 246, 41, 185, 105, 54, 231, 220, 75, 87, 208, 141, 160, 214, 215, 22>>
    [] c = <<1, 1, 1, 1, 0, 1>> ->
      <<159, 79, 153, 147, 102, 206, 233, 206, 44, 57, 120, 189, 149, 153, 123, 236, 216, 58, 123, 116, 172, 26, 248, 42, 179, 250, 67, 193, 247, 225, 19, 112>>
    [] c = <<1, 1, 1, 1, 0, 255>> ->
      <<19, 116, 191, 105, 195, 4, 165, 117, 119, 200, 133, 192, 109, 25, 93, 105, 38, 246, 183, 182, 4, 251, 67, 196, 79, 91, 216, 252, 212, 0, 9, 162>>
    [] c = <<1, 1, 1, 1, 1, 0>> ->
      <<208, 41, 173, 147, 151, 141, 247, 230, 238, 100, 244, 243, 181, 229, 190, 112, 223, 72, 206, 60, 190, 230, 213, 111, 213, 101, 31, 244, 188, 250, 115, 35>>
    [] c = <<1, 1, 1, 1, 1, 1>> ->
      <<223, 234, 41, 100, 181, 222, 237, 234, 123, 30, 240, 119, 222, 82, 156, 57, 89, 230, 120, 139, 219, 179, 68, 30, 112, 199, 122, 26, 232, 117, 187, 72>>
    [] c = <<1, 1, 1, 1, 1, 255>> ->
      <<5, 247, 232, 69, 174, 193, 225, 242, 222, 56, 1, 179, 0, 186, 148, 248, 71, 228, 209, 222, 2, 215, 6, 104, 229, 93, 50, 166, 168, 123, 79, 171>>
    [] c = <<1, 1, 1, 1, 255, 0>> ->
      <<157, 98, 91, 157, 164, 239, 22, 118, 192, 187, 228, 111, 174, 95, 227, 71, 173, 59, 76, 31, 2, 123, 137, 10, 199, 192, 247, 42, 11, 167, 165, 25>>
    [] c = <<1, 1, 1, 1, 255, 1>> ->
      <<196, 91, 222, 251, 151, 65, 25, 52, 185, 78, 49, 56, 165, 114, 148, 242, 158, 187, 238, 13, 109, 243, 167, 37, 10, 50, 153, 28, 0, 159, 238, 39>>
    [] c = <<1, 1, 1, 1, 255, 255>> ->
      <<109, 181, 14, 182, 99, 7, 202, 67, 229, 145, 238, 215, 164, 89, 46, 141, 89, 85, 107, 223, 228, 223, 42, 82, 62, 247, 111, 2, 160, 184, 55, 44>>
    [] c = <<1, 1, 1, 255, 0, 0>> ->
      <<91, 124, 199, 8, 230, 73, 121, 180, 242, 13, 21, 113, 66, 106, 239, 193, 215, 203, 238, 88, 70, 64, 8, 194, 232, 235, 31, 81, 209, 6, 217, 122>>
    [] c = <<1, 1, 1, 255, 0, 1>> ->
      <<246, 140, 63, 230, 75, 65, 232, 158, 212, 161, 107, 128, 163, 249, 248, 102, 109, 162, 153, 203, 63, 107, 125, 107, 221, 60, 86, 58, 149, 233, 85, 171>>
    [] c = <<1, 1, 1, 255, 0, 255>> ->
      <<173, 159, 123, 130, 183, 16, 5, 201, 172, 168, 128, 140, 183, 239, 70, 159, 206, 163, 189, 127, 33, 59, 199, 119, 58, 180, 253, 248, 53, 30, 126, 93>>
    [] c = <<1, 1, 1, 255, 1, 0>> ->
      <<168, 144, 159, 176, 46, 236, 255, 137, 190, 108, 32, 246, 77, 108, 200, 190, 29, 150, 207, 199, 112, 83, 211, 118, 21, 95, 130, 188, 57, 105, 112, 231>>
    [] c = <<1, 1, 1, 255, 1, 1>> ->
      <<91, 138, 17, 57, 27, 90, 16, 109, 195, 24, 213, 241, 83, 226, 111, 204, 248, 106, 150, 188, 119, 243, 166, 58, 182, 45, 43, 29, 79, 199, 224, 77>>
    [] c = <<1, 1, 1, 255, 1, 255>> ->
      <<120, 189, 157, 6, 1, 231, 66, 9, 132, 202, 61, 6, 223, 247, 230, 139, 248, 155, 134, 77, 114, 71, 251, 207, 119, 13, 86, 48, 240, 89, 233, 27>>
    [] c = <<1, 1, 1, 255, 255, 0>> ->
      <<34, 19, 64, 12, 182, 225, 109, 199, 254, 225, 177, 6, 20, 43, 55, 175, 106, 112, 209, 177, 79, 248, 250, 60, 202, 239, 108, 219, 228, 92, 232, 61>>
    [] c = <<1, 1, 1, 255, 255, 1>> ->
      <<100, 74, 146, 146, 214, 24, 40, 98, 186, 64, 233, 32, 214, 148, 215, 105, 161, 8, 79, 158, 251, 110, 220, 183, 11, 192, 209, 167, 178, 3, 166, 68>>
    [] c = <<1, 1, 1, 255, 255, 255>> ->
      <<186, 230, 94, 166, 118, 229, 75, 170, 195, 226, 58, 25, 152, 186, 187, 202, 213, 41, 138, 182, 74, 117, 72, 33, 211, 25, 85, 46, 191, 134, 179, 10>>
    [] c = <<1, 1, 255, 0, 0, 0>> ->
      <<242, 2, 22, 161, 220, 113, 212, 103, 198, 15, 27, 64, 51, 86, 184, 249, 69, 95, 120, 1, 229, 109, 198, 114, 100, 254, 133, 80, 98, 116, 18, 153>>
    [] c = <<1, 1, 255, 0, 0, 1>> ->
      <<187, 95, 4, 250, 132, 124, 141, 138, 184, 229, 186, 99, 16, 137, 26, 183, 67, 46, 153, 118, 125, 186, 138, 56, 220, 9, 99, 23, 153, 191, 43, 56>>
    [] c = <<1, 1, 255, 0, 0, 255>> ->
      <<181, 181, 44, 84, 254, 1, 66, 112, 14, 66, 155, 56, 237, 81, 80, 74, 66, 141, 191, 187, 237, 91, 185, 252, 210, 50, 212, 152, 119, 136, 140, 91>>
    [] c = <<1, 1, 255, 0, 1, 0>> ->
      <<11, 101, 2, 92, 173, 52, 32, 52, 68, 88, 215, 169, 104, 60, 31, 154, 189, 140, 103, 231, 137, 14, 140, 25, 51, 47, 126, 113, 141, 163, 8, 242>>
    [] c = <<1, 1, 255, 0, 1, 1>> ->
      <<126, 68, 140, 150, 73, 9, 98, 98, 122, 247, 214, 215, 15, 60, 22, 90, 37, 85, 121, 88, 169, 145, 127, 234, 38, 44, 116, 112, 160, 128, 32, 236>>
    [] c = <<1, 1, 255, 0, 1, 255>> ->
      <<232, 193, 218, 5, 230, 178, 143, 41, 213, 99, 28, 199, 5, 28, 15, 222, 94, 130, 254, 117, 112, 114, 60, 170, 36, 25, 111, 32, 218, 73, 143, 20>>
    [] c = <<1, 1, 255, 0, 255, 0>> ->
      <<28, 93, 7, 1, 184, 160, 200, 214, 135, 186, 115, 154, 85, 28, 11, 149, 238, 193, 62, 96, 115, 127, 166, 87, 162, 40, 61, 209, 195, 35, 56, 93>>
    [] c = <<1, 1, 255, 0, 255, 1>> ->
      <<166, 237, 11, 132, 35, 125, 91, 31, 32, 56, 22, 109, 199, 37, 249, 199, 162, 122, 125, 18, 34, 202, 174, 44, 238, 90, 77, 246, 115, 220, 123, 205>>
    [] c = <<1, 1, 255, 0, 255, 255>> ->
      <<236, 58, 147, 24, 11, 159, 137, 93, 196, 98, 74, 231, 58, 238, 146, 239, 177, 34, 196, 102, 172, 88, 23, 24, 207, 206, 166, 203, 58, 233, 204, 172>>
    [] c = <<1, 1, 255, 1, 0, 0>> ->
      <<199, 115, 189, 113, 31, 4, 35, 5, 234, 131, 222, 116, 24, 177, 69, 222, 61, 5, 179, 1, 46, 35, 189, 34, 220, 10, 15, 15, 190, 119, 139, 142>>
    [] c = <<1, 1, 255, 1, 0, 1>> ->
      <<228, 68, 61, 195, 45, 66, 109, 24, 149, 86, 71, 181, 254, 100, 20, 63, 197, 87, 56, 83, 106, 192, 55, 111, 99, 154, 142, 102, 239, 12, 214, 88>>
    [] c = <<1, 1, 255, 1, 0, 255>> ->
      <<214, 53, 183, 120, 140, 225, 113, 132, 212, 226, 170, 7, 183, 146, 200, 1, 42, 194, 63, 221, 244, 227, 245, 199, 127, 39, 245, 79, 57, 178, 137, 212>>
    [] c = <<1, 1, 255, 1, 1, 0>> ->
      <<198, 86, 151, 118, 64, 84, 34, 217, 81, 93, 11, 21, 109, 79, 252, 244, 38, 147, 106, 227, 11, 74, 10, 20, 129, 1, 173, 149, 132, 206, 69, 81>>
    [] c = <<1, 1, 255, 1, 1, 1>> ->
      <<110, 119, 166, 83, 87, 65, 168, 47, 6, 158, 95, 186, 246, 99, 55, 45, 213, 175, 252, 116, 213, 108, 105, 170, 210, 74, 230, 155, 108, 238, 126, 141>>
    [] c = <<1, 1, 255, 1, 1, 255>> ->
      <<184, 118, 75, 122, 202, 54, 26, 132, 141, 183, 126, 147, 112, 107, 158, 159, 83, 54, 250, 174, 163, 161, 150, 88, 248, 121, 81, 158, 140, 33, 238, 115>>
    [] c = <<1, 1, 255, 1, 255, 0>> ->
      <<99, 247, 5, 216, 168, 63, 23, 67, 112, 142, 23, 86, 87, 155, 10, 176, 244, 171, 217, 106, 153, 110, 107, 186, 166, 15, 9, 7, 223, 54, 3, 10>>
    [] c = <<1, 1, 255, 1, 255, 1>> ->
      <<131, 82, 38, 83, 104, 152, 242, 153, 248, 92, 142, 142, 80, 149, 40, 21, 251, 69, 103, 127, 188, 91, 239, 10, 13, 109, 185, 164, 179, 107, 119, 118>>
    [] c = <<1, 1, 255, 1, 255, 255>> ->
      <<100, 203, 34, 138, 210, 88, 113, 187, 145, 132, 22, 207, 104, 149, 141, 55, 225, 85, 155, 242, 26, 186, 101, 237, 224, 189, 183, 238, 238, 63, 53, 120>>
    [] c = <<1, 1, 255, 255, 0, 0>> ->
      <<104, 198, 26, 116, 10, 211, 177, 73, 12, 210, 95, 150, 58, 150, 112, 127, 171, 181, 27, 230, 73, 55, 104, 180, 41, 165, 38, 132, 237, 173, 147, 240>>
    [] c = <<1, 1, 255, 255, 0, 1>> ->
      <<37, 194, 155, 193, 197, 154, 220, 167, 125, 148, 17, 230, 175, 102, 49, 230, 249, 161, 182, 215, 238, 158, 233, 95, 122, 8, 97, 54, 252, 80, 115, 56>>
    [] c = <<1, 1, 255, 255, 0, 255>> ->
      <<211, 59, 255, 77, 58, 218, 222, 177, 3, 44, 246, 228, 59, 131, 136, 104, 3, 245, 101, 218, 191, 86, 87, 98, 92, 76, 146, 185, 116, 79, 3, 41>>
    [] c = <<1, 1, 255, 255, 1, 0>> ->
      <<253, 252, 95, 154, 52, 172, 249, 34, 4, 141, 208, 102, 113, 1, 223, 232, 123, 146, 76, 219, 140, 217, 130, 64, 143, 0, 207, 195, 87, 46, 145, 100>>
    [] c = <<1, 1, 255, 255, 1, 1>> ->
      <<14, 165, 158, 130, 89, 153, 93, 249, 183, 122, 70, 239, 242, 210, 76, 214, 210, 77, 208, 236, 13, 168, 173, 206, 25, 120, 225, 145, 9, 201, 24, 112>>
    [] c = <<1, 1, 255, 255, 1, 255>> ->
      <<165, 150, 90, 250, 228, 4, 143, 171, 101, 145, 127, 140, 227, 55, 99, 121, 222, 142, 13, 124, 148, 130, 171, 124, 156, 145, 120, 92, 53, 62, 167, 133>>
    [] c = <<1, 1, 255, 255, 255, 0>> ->
      <<141, 203, 203, 51, 214, 19, 22, 228, 227, 97, 196, 195, 1, 105, 176, 63, 189, 212, 56, 217, 58, 202, 53, 198, 241, 148, 9, 183, 150, 91, 232, 73>>
    [] c = <<1, 1, 255, 255, 255, 1>> ->
      <<34, 93, 133, 176, 147, 88, 49, 194, 251, 128, 186, 106, 33, 143, 13, 243, 38, 100, 24, 169, 154, 132, 199, 103, 144, 199, 128, 242, 181, 236, 117, 153>>
    [] c = <<1, 1, 255, 255, 255, 255>> ->
      <<39, 212, 122, 203, 57, 123, 224, 164, 253, 164, 107, 38, 1, 230, 46, 81, 190, 58, 244, 69, 156, 217, 70, 196, 48, 141, 6, 235, 252, 217, 121, 28>>
    [] c = <<1, 255, 0, 0, 0, 0>> ->
      <<96, 108, 65, 86, 194, 69, 164, 9, 104, 81, 69, 144, 179, 56, 66, 183, 222, 184, 191, 144, 156, 174, 40, 109, 171, 179, 126, 182, 8, 239, 209, 183>>
    [] c = <<1, 255, 0, 0, 0, 1>> ->
      <<158, 28, 149, 102, 122, 183, 106, 33, 169, 74, 91, 177, 244, 240, 197, 114, 195, 122, 161, 244, 122, 1, 37, 45, 177, 240, 113, 152, 203, 52, 122, 117>>
    [] c = <<1, 255, 0, 0, 0, 255>> ->
      <<184, 165, 130, 12, 186, 20, 72, 155, 99, 207, 178, 109, 72, 61, 159, 178, 208, 36, 187, 47, 173, 162, 238, 184, 109, 17, 104, 106, 181, 70, 255, 76>>
    [] c = <<1, 255, 0, 0, 1, 0>> ->
      <<54, 163, 157, 22, 84, 102, 106, 158, 52, 125, 157, 129, 13, 50, 92, 149, 227, 82, 223, 106, 189, 201, 121, 112, 186, 89, 249, 124, 144, 243, 177, 84>>
    [] c = <<1, 255, 0, 0, 1, 1>> ->
      <<249, 48, 241, 28, 219, 220, 163, 254, 11, 139, 20, 19, 23, 72, 3, 163, 253, 139, 154, 163, 55, 96, 7, 163, 48, 97, 217, 219, 183, 211, 196, 54>>
    [] c = <<1, 255, 0, 0, 1, 255>> ->
      <<229, 208, 84, 1, 3, 239, 5, 213, 188, 121, 149, 184, 159, 172, 6, 91, 17, 106, 7, 15, 43, 14, 83, 18, 246, 184, 249, 13, 209, 6, 45, 13>>
    [] c = <<1, 255, 0, 0, 255, 0>> ->
      <<62, 69, 153, 67, 145, 220, 19, 172, 75, 72, 111, 3, 3, 215, 250, 141, 79, 251, 159, 74, 73, 125, 179, 9, 42, 54, 148, 139, 47, 144, 194, 212>>
    [] c = <<1, 255, 0, 0, 255, 1>> ->
      <<6, 208, 70, 16, 128, 196, 103, 163, 80, 105, 250, 123, 115, 97, 3, 203, 240, 112, 87, 215, 183, 70, 232, 154, 206, 16, 117, 12, 33, 151, 245, 235>>
    [] c = <<1, 255, 0, 0, 255, 255>> ->
      <<69, 119, 16, 120, 187, 46, 35, 19, 166, 25, 99, 93, 175, 241, 204, 240, 3, 177, 215, 239, 86, 224, 174, 171, 228, 161, 20, 155, 34, 97, 236, 195>>
    [] c = <<1, 255, 0, 1, 0, 0>> ->
      <<53, 153, 166, 179, 62, 86, 151, 237, 87, 189, 232, 163, 6, 108, 30, 22, 15, 237, 166, 151, 204, 221, 66, 146, 63, 92, 33, 164, 38, 235, 142, 235>>
    [] c = <<1, 255, 0, 1, 0, 1>> ->
      <<25, 228, 180, 187, 62, 69, 170, 6, 74, 40, 223, 137, 16, 228, 57, 83, 81, 86, 8, 238, 84, 85, 28, 84, 71, 107, 202, 93, 254, 23, 111, 107>>
    [] c = <<1, 255, 0, 1, 0, 255>> ->
      <<60, 111, 17, 156, 224, 180, 224, 156, 91, 30, 73, 141, 114, 179, 145, 5, 76, 243, 11, 78, 22, 141, 219, 202, 149, 39, 76, 47, 75, 236, 78, 170>>
    [] c = <<1, 255, 0, 1, 1, 0>> ->
      <<145, 108, 54, 93, 63, 67, 149, 73, 96, 41, 73, 129, 134, 133, 156, 54, 128, 219, 2, 32, 182, 103, 207, 196, 247, 25, 209, 145, 228, 248, 112, 239>>
    [] c = <<1, 255, 0, 1, 1, 1>> ->
      <<53, 95, 181, 188, 147, 29, 252, 85, 142, 185, 219, 53, 128, 200, 22, 62, 61, 87, 236, 230, 37, 252, 98, 245, 45, 98, 59, 14, 225, 242, 73, 205>>
    [] c = <<1, 255, 0, 1, 1, 255>> ->
      <<114, 88, 48, 84, 127, 133, 249, 88, 12, 89, 6, 115, 27, 27, 103, 194, 67, 23, 238, 111, 131, 78, 158, 228, 75, 12, 156, 92, 1, 206, 1, 248>>
    [] c = <<1, 255, 0, 1, 255, 0>> ->
      <<113, 205, 30, 123, 37, 174, 214, 156, 129, 51, 141, 16, 106, 130, 253, 30, 37, 186, 198, 136, 83, 18, 69, 193, 32, 194, 3, 189, 59, 166, 118, 6>>
    [] c = <<1, 255, 0, 1, 255, 1>> ->
      <<82, 221, 183, 215, 91, 62, 68, 30, 27, 61, 42, 55, 252, 104, 85, 35, 89, 48, 7, 104, 89, 234, 95, 172, 75, 96, 172, 225, 55, 240, 111, 79>>
    [] c = <<1, 255, 0, 1, 255, 255>> ->
      <<177, 217, 44, 171, 124, 197, 126, 186, 20, 64, 236, 143, 156, 168, 175, 165, 29, 153, 95, 186, 36, 185, 225, 123, 25, 137, 51, 66, 55, 62, 102, 75>>
    [] c = <<1, 255, 0, 255, 0, 0>> ->
      <<73, 227, 204, 184, 95, 151, 249, 14, 234, 126, 131, 1, 6, 152, 17, 94, 75, 255, 18, 76, 228, 169, 165, 55, 183, 237, 131, 107, 158, 61, 101, 221>>
    [] c = <<1, 255, 0, 255, 0, 1>> ->
      <<63, 219, 234, 140, 38, 199, 122, 186, 9, 92, 201, 182, 142, 83, 118, 202, 115, 185, 80, 178, 86, 191, 31, 222, 220, 212, 221, 43, 49, 71, 75, 60>>
    [] c = <<1, 255, 0, 255, 0, 255>> ->
      <<159, 44, 87, 197, 57, 184, 131, 108, 250, 224, 69, 179, 215, 167, 141, 242, 87, 160, 69, 71, 42, 65, 70, 148, 189, 221, 17, 230, 25, 64, 118, 97>>
    [] c = <<1, 255, 0, 255, 1, 0>> ->
      <<133, 238, 165, 102, 233, 59, 129, 7, 53, 121, 221, 254, 194, 27, 138, 119, 106, 226, 176, 22, 71, 10, 169, 113, 97, 110, 167, 222, 251, 48, 249, 192>>
    [] c = <<1, 255, 0, 255, 1, 1>> ->
      <<87, 11, 102, 253, 177, 102, 50, 165, 225, 165, 18, 123, 31, 134, 105, 121, 196, 168, 244, 175, 101, 17, 16, 187, 75, 83, 108, 177, 194, 42, 59, 224>>
    [] c = <<1, 255, 0, 255, 1, 255>> ->
      <<26, 245, 231, 114, 74, 168, 245, 229, 133, 22, 1, 105, 26, 93, 176, 59, 9, 154, 52, 227, 254, 245, 88, 93, 160, 244, 177, 117, 141, 36, 112, 202>>
    [] c = <<1, 255, 0, 255, 255, 0>> ->
      <<43, 190, 168, 125, 109, 219, 34, 111, 48, 146, 173, 131, 60, 207, 115, 255, 108, 60, 200, 192, 113, 162, 188, 11, 129, 54, 9, 71, 125, 202, 95, 197>>
    [] c = <<1, 255, 0, 255, 255, 1>> ->
      <<246, 97, 155, 176, 194, 185, 213, 248, 213, 109, 36, 6, 36, 248, 192, 46, 119, 130, 95, 11, 228, 87, 0, 123, 140, 6, 224, 121, 231, 68, 128, 118>>
    [] c = <<1, 255, 0, 255, 255, 255>> ->
      <<68, 167, 209, 129, 198, 230, 205, 191, 87, 85, 203, 127, 186, 148, 203, 137, 255, 109, 236, 241, 220, 3, 178, 175, 80, 191, 151, 123, 203, 46, 67, 139>>
    [] c = <<1, 255, 1, 0, 0, 0>> ->
      <<118, 183, 155, 217, 236, 13, 64, 160, 44, 187, 220, 93, 35, 82, 203, 212, 47, 7, 55, 238, 195, 43, 130, 145, 60, 215, 145, 239, 59, 209, 110, 95>>
    [] c = <<1, 255, 1, 0, 0, 1>> ->
      <<210, 194, 145, 185, 2, 128, 12, 164, 6, 60, 228, 171, 31, 207, 105, 12, 250, 227, 144, 37, 148, 223, 7, 10, 114, 141, 163, 16, 238, 209, 158, 143>>
    [] c = <<1, 255, 1, 0, 0, 255>> ->
      <<164, 146, 201, 141, 30, 27, 33, 137, 143, 20, 160, 13, 192, 26, 198, 240, 212, 60, 78, 235, 128, 252, 17, 148, 159, 99, 48, 150, 225, 121, 55, 6>>
    [] c = <<1, 255, 1, 0, 1, 0>> ->
      <<197, 4, 228, 240, 117, 203, 17, 189, 84, 76, 96, 126, 118, 127, 135, 183, 182, 202, 44, 223, 229, 25, 16, 31, 112, 157, 243, 95, 221, 103, 222, 54>>
    [] c = <<1, 255, 1, 0, 1, 1>> ->
      <<13, 65, 45, 101, 91, 221, 40, 255, 78, 97, 250, 230, 252, 175, 227, 237, 199, 28, 66, 153, 255, 215, 46, 183, 125, 221, 133, 45, 172, 52, 157, 8>>
    [] c = <<1, 255, 1, 0, 1, 255>> ->
      <<190, 92, 40, 148, 32, 167, 124, 143, 146, 44, 246, 89, 187, 114, 169, 104, 115, 7, 206, 195, 195, 240, 143, 88, 243, 76, 225, 248, 95, 152, 118, 167>>
    [] c = <<1, 255, 1, 0, 255, 0>> ->
      <<218, 21, 199, 21, 235, 79, 156, 204, 151, 150, 75, 63, 97, 113, 47, 43, 62, 167, 103, 28, 51, 207, 11, 134, 213, 47, 190, 61, 136, 123, 49, 239>>
    [] c = <<1, 255, 1, 0, 255, 1>> ->
      <<165, 98, 186, 128, 69, 236, 27, 102, 121, 98, 191, 80, 243, 41, 82, 122, 164, 250, 139, 206, 121, 189, 252, 55, 53, 234, 18, 228, 34, 55, 10, 144>>
    [] c = <<1, 255, 1, 0, 255, 255>> ->
      <<190, 68, 206, 81, 74, 235, 122, 117, 136, 50, 162, 83, 215, 141, 0, 115, 131, 19, 252, 135, 27, 178, 44, 7, 111, 125, 35, 163, 184, 2, 39, 249>>
    [] c = <<1, 255, 1, 1, 0, 0>> ->
      <<108, 182, 239, 215, 250, 117, 220, 143, 118, 156, 244, 224, 181, 119, 227, 92, 55, 170, 100, 93, 83, 119, 168, 136, 147, 94, 7, 225, 205, 111, 177, 74>>
    [] c = <<1, 255, 1, 1, 0, 1>> ->
      <<45, 166, 176, 72, 52, 186, 188, 117, 237, 207, 11, 255, 28, 6, 43, 92, 13, 150, 222, 133, 100, 99, 152, 20, 168, 132, 151, 152, 122, 190, 219, 227>>
    [] c = <<1, 255, 1, 1, 0, 255>> ->
      <<14, 205, 30, 159, 202, 63, 139, 112, 29, 81, 192, 127, 198, 135, 77, 29, 197, 113, 189, 57, 169, 165, 2, 231, 215, 13, 110, 246, 1, 109, 215, 70>>
    [] c = <<1, 255, 1, 1, 1, 0>> ->
      <<104, 204, 131, 126, 136, 47, 148, 234, 9, 209, 174, 66, 178, 227, 50, 141, 252, 150, 109, 196, 161, 77, 43, 175, 147, 123, 106, 51, 105, 149, 233, 67>>
    [] c = <<1, 255, 1, 1, 1, 1>> ->
      <<91, 238, 206, 213, 175, 40, 76, 3, 105, 114, 26, 4, 186, 203, 10, 109, 217, 118, 43, 218, 114, 103, 123, 113, 245, 83, 181, 4, 245, 159, 181, 244>>
    [] c = <<1, 255, 1, 1, 1, 255>> ->
      <<254, 35, 194, 140, 198, 51, 113, 92, 176, 73, 177, 128, 79, 141, 41, 175, 94, 140, 1, 18, 48, 68, 214, 195, 124, 248, 67, 72, 234, 69, 91, 227>>
    [] c = <<1, 255, 1, 1, 255, 0>> ->
      <<124, 61, 6, 241, 37, 48, 184, 167, 233, 221, 176, 212, 115, 207, 51, 157, 67, 4, 58, 111, 51, 179, 235, 91, 58, 117, 20, 65, 206, 168, 170, 38>>
    [] c = <<1, 255, 1, 1, 255, 1>> ->
      <<91, 254, 164, 195, 13, 92, 76, 150, 77, 135, 3, 55, 111, 190, 78, 17, 5, 33, 223, 81, 72, 38, 43, 145, 104, 220, 25, 33, 73, 44, 254, 120>>
    [] c = <<1, 255, 1, 1, 255, 255>> ->
      <<213, 71, 34, 6, 102, 229, 121, 3, 222, 29, 246, 128, 17, 117, 168, 97, 208, 101, 157, 95, 180, 182, 143, 234, 216, 57, 108, 53, 34, 219, 125, 70>>
    [] c = <<1, 255, 1, 255, 0, 0>> ->
      <<217, 243, 105, 107, 235, 91, 67, 68, 109, 139, 170, 203, 66, 133, 225, 109, 117, 181, 72, 125, 140, 73, 105, 186, 110, 160, 72, 4, 205, 52, 6, 167>>
    [] c = <<1, 255, 1, 255, 0, 1>> ->
      <<170, 94, 220, 154, 210, 137, 241, 76, 144, 195, 105, 68, 175, 250, 59, 152, 15, 94, 182, 208, 132, 228, 147, 3, 14, 112, 169, 226, 147, 37, 92, 252>>
    [] c = <<1, 255, 1, 255, 0, 255>> ->
      <<82, 174, 162, 164, 207, 212, 46, 27, 184, 112, 76, 36, 18, 169, 162, 93, 162, 107, 53, 193, 147, 194, 135, 208, 202, 228, 13, 240, 165, 146, 118, 187>>
    [] c = <<1, 255, 1, 255, 1, 0>> ->
      <<82, 143, 152, 214, 236, 37, 113, 72, 195, 168, 229, 237, 45, 7, 174, 179, 254, 251, 224, 165, 240, 169, 181, 116, 183, 227, 1, 248, 226, 159, 114, 124>>
    [] c = <<1, 255, 1, 255, 1, 1>> ->
      <<220, 248, 235, 162, 108, 221, 162, 165, 197, 0, 252, 51, 26, 224, 52, 210, 57, 10, 0, 41, 52, 72, 213, 150, 68, 219, 62, 204, 66, 138, 75, 46>>
    [] c = <<1, 255, 1, 255, 1, 255>> ->
      <<178, 112, 196, 234, 75, 141, 19, 125, 172, 183, 96, 214, 20, 150, 70, 15, 220, 167, 97, 66, 7, 76, 244, 141, 236, 48, 35, 170, 233, 9, 253, 193>>
    [] c = <<1, 255, 1, 255, 255, 0>> ->
      <<168, 82, 206, 158, 106, 104, 16, 113, 193, 203, 20, 225, 7, 130, 169, 4, 212, 31, 248, 175, 197, 232, 191, 139, 8, 91, 197, 109, 19, 37, 73, 81>>
    [] c = <<1, 255, 1, 255, 255, 1>> ->
      <<203, 110, 164, 75, 105, 254, 135, 229, 211, 92, 234, 102, 163, 38, 149, 208, 154, 77, 122, 59, 223, 238, 84, 98, 29, 146, 179, 167, 162, 83, 188, 95>>
    [] c = <<1, 255, 1, 255, 255, 255>> ->
      <<160, 157, 49, 197, 189, 18, 213, 168, 239, 173, 148, 154, 198, 23, 45, 119, 240, 202, 249, 214, 93, 215, 202, 138, 98, 199, 80, 236, 113, 157, 194, 38>>
    [] c = <<1, 255, 255, 0, 0, 0>> ->
      <<235, 242, 203, 159, 132, 136, 254, 86, 200, 190, 159, 1, 164, 143, 42, 48, 187, 231, 41, 79, 252, 61, 148, 89, 81, 99, 13, 90, 189, 220, 44, 187>>
    [] c = <<1, 255, 255, 0, 0, 1>> ->
      <<102, 150, 171, 231, 18, 182, 198, 92, 41, 170, 104, 213, 92, 165, 84, 208, 164, 234, 133, 2, 127, 115, 228, 117, 108, 18, 135, 82, 11, 150, 103, 36>>
    [] c = <<1, 255, 255, 0, 0, 255>> ->
      <<113, 37, 72, 64, 87, 36, 155, 140, 8, 11, 179, 131, 45, 68, 176, 249, 216, 25, 7, 161, 141, 81, 81, 149, 22, 73, 23, 127, 75, 61, 124, 40>>
    [] c = <<1, 255, 255, 0, 1, 0>> ->
      <<57, 226, 87, 218, 178, 126, 250, 46, 77, 103, 16, 49, 237, 43, 233, 46, 222, 19, 220, 221, 100, 233, 154, 106, 120, 147, 208, 97, 255, 116, 52, 6>>
    [] c = <<1, 255, 255, 0, 1, 1>> ->
      <<138, 53, 39, 253, 252, 25, 12, 232, 89, 89, 214, 125, 203, 189, 44, 145, 111, 89, 44, 128, 189, 181, 123, 164, 201, 213, 95, 31, 196, 71, 207, 175>>
    [] c = <<1, 255, 255, 0, 1, 255>> ->
      <<230, 196, 0, 209, 107, 251, 205, 31, 43, 69, 40, 19, 100, 250, 163, 46, 57, 244, 194, 95, 59, 126, 12, 43, 231, 182, 236, 240, 123, 30, 158, 181>>
    [] c = <<1, 255, 255, 0, 255, 0>> ->
      <<171, 182, 199, 210, 71, 2, 0, 100, 64, 108, 35, 249, 228, 221, 142, 50, 41, 139, 30, 191, 5, 70, 66, 17, 162, 111, 148, 102, 16, 67, 7, 124>>
    [] c = <<1, 255, 255, 0, 255, 1>> ->
      <<113, 233, 113, 10, 10, 149, 244, 39, 9, 196, 68, 189, 60, 97, 248, 61, 38, 151, 170, 214, 155, 46, 242, 106, 80, 50, 217, 195, 69, 85, 198, 150>>
    [] c = <<1, 255, 255, 0, 255, 255>> ->
      <<110, 214, 107, 136, 66, 147, 205, 197, 153, 123, 79, 103, 191, 79, 9, 97, 234, 9, 30, 145, 91, 25, 170, 198, 173, 96, 86, 47, 197, 184, 38, 35>>
    [] c = <<1, 255, 255, 1, 0, 0>> ->
      <<18, 4, 75, 83, 4, 224, 105, 224, 25, 40, 243, 85, 238, 80, 182, 121, 119, 195, 42, 242, 35, 111, 72, 126, 168, 12, 78, 93, 40, 28, 180, 201>>
    [] c = <<1, 255, 255, 1, 0, 1>> ->
      <<84, 254, 102, 111, 234, 126, 97, 196, 228, 228, 21, 178, 25, 248, 229, 204, 18, 98, 248, 102, 65, 210, 87, 0, 72, 26, 250, 51, 62, 94, 61, 102>>
    [] c = <<1, 255, 255, 1, 0, 255>> ->
      <<62, 25, 47, 159, 113, 57, 184, 57, 84, 93, 112, 194, 75, 129, 230, 128, 140, 128, 186, 79, 38, 204, 49, 175, 53, 193, 240, 111, 84, 60, 142, 250>>
    [] c = <<1, 255, 255, 1, 1, 0>> ->
      <<197, 200, 173, 202, 129, 1, 143, 152, 125, 62, 10, 236, 46, 76, 194, 132, 174, 216, 203, 151, 223, 171, 241, 211, 175, 127, 156, 12, 206, 1, 31, 224>>
    [] c = <<1, 255, 255, 1, 1, 1>> ->
      <<236, 204, 85, 117, 213, 96, 162, 244, 67, 123, 234, 0, 195, 7, 100, 58, 96, 222, 10, 174, 77, 141, 139, 205, 226, 49, 145, 119, 255, 78, 223, 124>>
    [] c = <<1, 255, 255, 1, 1, 255>> ->
      <<33, 183, 45, 219, 40, 191, 43, 112, 145, 14, 206, 18, 153, 197, 90, 210, 68, 88, 132, 155, 223, 195, 35, 112, 56, 223, 41, 193, 111, 146, 71, 3>>
    [] c = <<1, 255, 255, 1, 255, 0>> ->
      <<148, 40, 53, 48, 211, 126, 205, 139, 117, 26, 69, 126, 154, 252, 41, 211, 205, 246, 201, 189, 143, 169, 86, 177, 223, 156, 42, 52, 118, 248, 200, 106>>
    [] c = <<1, 255, 255, 1, 255, 1>> ->
      <<22, 70, 157, 229, 218, 23, 24, 238, 209, 202, 100, 244, 154, 240, 80, 147, 36, 188, 136, 4, 24, 80, 235, 91, 108, 215, 137, 127, 1, 5, 212, 22>>
    [] c = <<1, 255, 255, 1, 255, 255>> ->
      <<69, 242, 11, 11, 90, 120, 130, 10, 30, 246, 132, 141, 17, 65, 39, 197, 36, 190, 45, 177, 189, 171, 209, 14, 153, 11, 86, 119, 131, 107, 182, 237>>
    [] c = <<1, 255, 255, 255, 0, 0>> ->
      <<48, 244, 134, 211, 226, 79, 35, 93, 16, 60, 198, 77, 196, 111, 128, 73, 28, 12, 19, 42, 123, 134, 253, 105, 171, 143, 246, 141, 96, 87, 211, 180>>
    [] c = <<1, 255, 255, 255, 0, 1>> ->
      <<39, 60, 150, 28, 95, 25, 28, 102, 219, 147, 84, 244, 14, 249, 122, 86, 231, 224, 168, 59, 197, 150, 84, 23, 223, 183, 139, 173, 139, 221, 163, 83>>
    [] c = <<1, 255, 255, 255, 0, 255>> ->
      <<99, 9, 95, 139, 229, 81, 250, 157, 36, 231, 243, 208, 232, 240, 216, 247, 105, 80, 90, 102, 27, 143, 204, 100, 180, 210, 13, 168, 26, 24, 116, 245>>
    [] c = <<1, 255, 255, 255, 1, 0>> ->
      <<98, 44, 176, 248, 176, 11, 236, 188, 179, 4, 103, 17, 52, 129, 204, 131, 232, 48, 211, 101, 31, 110, 45, 112, 89, 237, 179, 100, 114, 224, 180, 61>>
    [] c = <<1, 255, 255, 255, 1, 1>> ->
      <<253, 242, 71, 5, 109, 226, 234, 28, 200, 70, 210, 178, 59, 108, 140, 96, 221, 234, 29, 48, 147, 136, 73, 135, 58, 79, 54, 27, 84, 162, 201, 151>>
    [] c = <<1, 255, 255, 255, 1, 255>> ->
      <<219, 2, 160, 229, 108, 24, 148, 108, 242, 99, 205, 123, 251, 35, 194, 196, 49, 64, 185, 12, 222, 186, 51, 42, 200, 144, 21, 118, 45, 66, 100, 231>>
    [] c = <<1, 255, 255, 255, 255, 0>> ->
      <<44, 135, 100, 109, 138, 188, 90, 85, 81, 248, 1, 211, 220, 222, 223, 198, 162, 179, 161, 27, 203, 152, 89, 206, 84, 236, 223, 253, 191, 56, 229, 153>>
    [] c = <<1, 255, 255, 255, 255, 1>> ->
      <<58, 217, 250, 128, 102, 220, 10, 151, 126, 84, 128, 34, 77, 113, 29, 134, 201, 192, 242, 195, 130, 152, 12, 47, 13, 165, 183, 249, 251, 131, 231, 155>>
    [] c = <<1, 255, 255, 255, 255, 255>> ->
      <<84, 114, 96, 161, 255, 217, 145, 98, 58, 77, 110, 127, 160, 66, 39, 4, 117, 80, 11, 221, 185, 243, 31, 142, 135, 69, 44, 45, 83, 197, 142, 207>>
    [] c = <<255, 0, 0, 0, 0, 0>> ->
      <<236, 203, 168, 177, 64, 56, 239, 109, 117, 222, 197, 203, 82, 138, 199, 181, 214, 110, 227, 109, 67, 90, 41, 164, 148, 60, 66, 16, 110, 221, 166, 100>>
    [] c = <<255, 0, 0, 0, 0, 1>> ->
      <<124, 113, 31, 6, 206, 102, 206, 26, 25, 199, 185, 243, 231, 50, 106, 135, 50, 244, 61, 96, 52, 222, 177, 254, 74, 191, 105, 219, 9, 114, 109, 139>>
    [] c = <<255, 0, 0, 0, 0, 255>> ->
      <<202, 92, 198, 214, 251, 32, 160, 175, 20, 167, 150, 78, 156, 168, 101, 104, 128, 214, 47, 125, 85, 223, 18, 23, 26, 193, 77, 58, 133, 133, 144, 170>>
    [] c = <<255, 0, 0, 0, 1, 0>> ->
      <<20, 162, 36, 117, 31, 118, 143, 235, 184, 205, 223, 160, 53, 43, 43, 255, 116, 119, 155, 215, 9, 75, 247, 50, 176, 197, 57, 144, 34, 17, 56, 16>>
    [] c = <<255, 0, 0, 0, 1, 1>> ->
      <<47, 207, 59, 200, 146, 225, 180, 239, 255, 178, 180, 239, 5, 78, 5, 102, 78, 84, 154, 81, 78, 119, 141, 89, 182, 104, 2, 95, 154, 82, 206, 199>>
    [] c = <<255, 0, 0, 0, 1, 255>> ->
      <<153, 25, 17, 173, 184, 237, 20, 121, 249, 200, 115, 2, 215, 240, 192, 39, 33, 67, 108, 187, 80, 67, 240, 168, 194, 30, 117, 126, 197, 8, 224, 120>>
    [] c = <<255, 0, 0, 0, 255, 0>> ->
      <<7, 87, 36, 31, 168, 70, 133, 88, 113, 196, 236, 105, 148, 149, 76, 190, 14, 14, 122, 143, 215, 187, 63, 116, 135, 70, 47, 108, 228, 33, 87, 128>>
    [] c = <<255, 0, 0, 0, 255, 1>> ->
      <<58, 136, 74, 159, 91, 119, 122, 61, 247, 139, 138, 17, 51, 79, 150, 140, 120, 234, 151, 184, 172, 242, 34, 73, 179, 50, 113, 248, 72, 42, 67, 61>>
    [] c = <<255, 0, 0, 0, 255, 255>> ->
      <<129, 8, 153, 69, 134, 58, 98, 151, 52, 146, 198, 94, 191, 11, 1, 118, 53, 41, 120, 215, 119, 152, 246, 92, 111, 134, 169, 95, 254, 159, 107, 52>>
    [] c = <<255, 0, 0, 1, 0, 0>> ->
      <<80, 119, 239, 37, 209, 78, 134, 26, 247, 95, 138, 169, 216, 209, 218, 173, 8, 55, 188, 190, 99, 142, 214, 243, 238, 197, 101, 87, 221, 65, 237, 237>>
    [] c = <<255, 0, 0, 1, 0, 1>> ->
      <<155, 238, 5, 93, 64, 252, 4, 203, 19, 5, 162, 18, 161, 108, 99, 73, 0, 75, 204, 173, 196, 249, 43, 100, 155, 116, 91, 193, 55, 58, 55, 134>>
    [] c = <<255, 0, 0, 1, 0, 255>> ->
      <<145, 196, 3, 25, 59, 225, 150, 248, 255, 127, 14, 202, 72, 78, 27, 105, 253, 129, 114, 18, 7, 172, 194, 79, 231, 52, 77, 90, 140, 185, 252, 32>>
    [] c = <<255, 0, 0, 1, 1, 0>> ->
      <<219, 115, 241, 82, 146, 249, 115, 52, 82, 135, 185, 223, 61, 201, 242, 231, 64, 158, 241, 16, 56, 183, 174, 7, 194, 78, 204, 122, 6, 124, 87, 15>>
    [] c = <<255, 0, 0, 1, 1, 1>> ->
      <<185, 158, 81, 20, 197, 168, 187, 112, 12, 235, 123, 62, 114, 162, 29, 127, 2, 39, 141, 5, 76, 108, 50, 155, 166, 229, 239, 161, 73, 153, 199, 93>>
    [] c = <<255, 0, 0, 1, 1, 255>> ->
      <<48, 197, 66, 112, 47, 182, 208, 159, 87, 156, 228, 215, 105, 39, 222, 233, 245, 45, 139, 80, 66, 73, 181, 151, 157, 49, 233, 27, 200, 48, 81, 87>>
    [] c = <<255, 0, 0, 1, 255, 0>> ->
      <<198, 0, 88, 159, 191, 95, 7, 8, 142, 179, 255, 66, 196, 222, 235, 11, 37, 20, 44, 74, 108, 181, 208, 119, 47, 18, 227, 115, 197, 60, 203, 106>>
    [] c = <<255, 0, 0, 1, 255, 1>> ->
      <<88, 66, 233, 165, 37, 94, 151, 241, 232, 247, 245, 74, 158, 72, 12, 51, 48, 73, 223, 241, 210, 131, 110, 204, 234, 133, 11, 218, 5, 174, 12, 110>>
    [] c = <<255, 0, 0, 1, 255, 255>> ->
      <<171, 252, 37, 151, 25, 143, 247, 8, 238, 158, 77, 145, 169, 30, 63, 43, 31, 188, 98, 164, 98, 22, 14, 67, 195, 87, 177, 168, 32, 41, 50, 145>>
    [] c = <<255, 0, 0, 255, 0, 0>> ->
      <<28, 243, 217, 112, 24, 191, 77, 133, 28, 66, 62, 2, 210, 235, 72, 234, 59, 30, 171, 133, 27, 250, 39, 92, 10, 122, 134, 240, 204, 17, 14, 49>>
    [] c = <<255, 0, 0, 255, 0, 1>> ->
      <<128, 20, 225, 7, 101, 232, 32, 249, 41, 33, 47, 228, 80, 211, 238, 8, 250, 170, 96, 87, 75, 81, 209, 158, 128, 179, 74, 20, 27, 108, 62, 167>>
    [] c = <<255, 0, 0, 255, 0, 255>> ->
      <<49, 0, 144, 111, 42, 246, 157, 109, 221, 158, 184, 22, 123, 247, 231, 247, 164, 26, 184, 177, 155, 2, 230, 201, 82, 210, 175, 229, 121, 149, 36, 141>>
    [] c = <<255, 0, 0, 255, 1, 0>> ->
      <<211, 130, 181, 36, 192, 205, 83, 186, 104, 159, 214, 245, 224, 16, 22, 174, 251, 74, 145, 102, 193, 206, 19, 129, 68, 97, 23, 223, 162, 172, 178, 204>>
    [] c = <<255, 0, 0, 255, 1, 1>> ->
      <<43, 1, 20, 159, 188, 205, 166, 222, 167, 107, 151, 48, 0, 103, 116, 160, 32, 197, 209, 124, 228, 152, 75, 68, 246, 210, 148, 14, 230, 75, 29, 26>>
    [] c = <<255, 0, 0, 255, 1, 255>> ->
      <<115, 139, 32, 124, 30, 32, 59, 104, 98, 186, 220, 106, 50, 131, 64, 220, 224, 247, 207, 205, 24, 199, 104, 60, 124, 51, 203, 229, 57, 141, 58, 247>>
    [] c = <<255, 0, 0, 255, 255, 0>> ->
      <<155, 238, 15, 81, 113, 169, 18, 30, 252, 60, 33, 24, 180, 191, 236, 149, 90, 204, 171, 216, 74, 218, 42, 134, 207, 102, 53, 84, 135, 85, 175, 221>>
    [] c = <<255, 0, 0, 255, 255, 1>> ->
      <<234, 24, 54, 46, 1, 243, 131, 140, 12, 134, 59, 67, 219, 113, 177, 224, 221, 219, 31, 146, 89, 200, 159, 215, 136, 9, 138, 20, 9, 151, 34, 127>>
    [] c = <<255, 0, 0, 255, 255, 255>> ->
      <<45, 10, 173, 112, 129, 164, 205, 182, 68, 11, 127, 18, 49, 187, 222, 57, 153, 142, 171, 117, 96, 255, 249, 3, 27, 163, 138, 75, 21, 193, 102, 225>>
    [] c = <<255, 0, 1, 0, 0, 0>> ->
      <<163, 190, 24, 18, 229, 106, 41, 251, 158, 30, 108, 226, 187, 11, 209, 197, 141, 139, 206, 183, 216, 220, 193, 137, 75, 159, 232, 94, 51, 50, 145, 137>>
    [] c = <<255, 0, 1, 0, 0, 1>> ->
      <<195, 12, 37, 177, 158, 21, 98, 175, 93, 153, 156, 111, 228, 22, 6, 194, 229, 146, 227, 9, 163, 197, 182, 3, 251, 116, 100, 172, 72, 236, 52, 5>>
    [] c = <<255, 0, 1, 0, 0, 255>> ->
      <<170, 141, 127, 62, 208, 161, 148, 79, 89, 91, 124, 43, 109, 159, 72, 25, 165, 40, 52, 154, 112, 243, 229, 252, 9, 161, 110, 126, 113, 152, 188, 60>>
    [] c = <<255, 0, 1, 0, 1, 0>> ->
      <<129, 21, 154, 161, 0, 63, 175, 123, 207, 96, 76, 78, 216, 163, 32, 107, 123, 128, 247, 225, 24, 138, 237, 80, 65, 109, 3, 205, 152, 148, 215, 190>>
    [] c = <<255, 0, 1, 0, 1, 1>> ->
      <<250, 102, 26, 206, 12, 31, 227, 40, 39, 217, 247, 85, 90, 253, 255, 120, 156, 200, 93, 239, 49, 86, 101, 106, 119, 144, 140, 66, 123, 170, 209, 22>>
    [] c = <<255, 0, 1, 0, 1, 255>> ->
      <<37, 120, 150, 138, 66, 178, 130, 27, 114, 97, 201, 175, 198, 164, 75, 237, 51, 172, 118, 81, 68, 167, 202, 62, 163, 213, 48, 175, 87, 69, 73, 203>>
    [] c = <<255, 0, 1, 0, 255, 0>> ->
      <<230, 73, 124, 133, 99, 22, 19, 226, 210, 98, 27, 187, 6, 250, 124, 245, 109, 138, 216, 162, 132, 200, 42, 235, 229, 197, 98, 24, 103, 211, 38, 77>>
    [] c = <<255, 0, 1, 0, 255, 1>> ->
      <<110, 158, 58, 135, 129, 204, 107, 79, 37, 37, 11, 183, 189, 222, 224, 246, 241, 223, 66, 177, 159, 11, 8, 158, 183, 116, 235, 48, 100, 182, 98, 146>>
    [] c = <<255, 0, 1, 0, 255, 255>> ->
      <<98, 59, 61, 223, 237, 90, 188, 164, 225, 35, 203, 102, 114, 202, 195, 3, 187, 24, 95, 10, 219, 3, 39, 28, 113, 77, 21, 215, 101, 227, 100, 151>>
    [] c = <<255, 0, 1, 1, 0, 0>> ->
      <<132, 230, 242, 27, 165, 146, 186, 155, 150, 77, 84, 38, 40, 66, 66, 184, 52, 203, 17, 43, 77, 24, 233, 166, 144, 85, 174, 174, 56, 48, 74, 83>>
    [] c = <<255, 0, 1, 1, 0, 1>> ->
      <<113, 104, 82, 84, 214, 210, 104, 215, 237, 16, 121, 110, 237, 12, 2, 206, 65, 100, 149, 137, 162, 168, 102, 120, 20, 53, 238, 113, 125, 140, 82, 26>>
    [] c = <<255, 0, 1, 1, 0, 255>> ->
      <<131, 97, 205, 19, 20, 156, 18, 7, 97, 102, 226, 151, 130, 13, 114, 226, 204, 81, 144, 53, 111, 64, 194, 112, 176, 13, 132, 147, 116, 97, 205, 73>>
    [] c = <<255, 0, 1, 1, 1, 0>> ->
      <<215, 249, 155, 190, 134, 94, 196, 136, 6, 141, 237, 84, 228, 232, 84, 6, 127, 252, 178, 114, 62, 132, 155, 21, 223, 40, 35, 124, 3, 195, 231, 9>>
    [] c = <<255, 0, 1, 1, 1, 1>> ->
      <<97, 65, 88, 4, 188, 109, 249, 246, 212, 60, 239, 78, 125, 199, 252, 87, 223, 61, 199, 219, 193, 122, 153, 197, 87, 99, 163, 1, 225, 199, 139, 27>>
    [] c = <<255, 0, 1, 1, 1, 255>> ->
      <<85, 82, 54, 212, 82, 141, 17, 55, 182, 127, 99, 206, 88, 142, 169, 164, 91, 62, 95, 253, 133, 116, 243, 106, 190, 207, 130, 131, 144, 134, 156, 183>>
    [] c = <<255, 0, 1, 1, 255, 0>> ->
      <<206, 106, 236, 6, 50, 199, 147, 2, 3, 180, 125, 192, 67, 13, 178, 234, 170, 192, 94, 121, 225, 62, 134, 59, 201, 84, 240, 139, 27, 134, 226, 36>>
    [] c = <<255, 0, 1, 1, 255, 1>> ->
      <<186, 5, 187, 173, 170, 245, 18, 64, 146, 113, 163, 9, 69, 63, 158, 173, 209, 115, 36, 214, 198, 47, 52, 76, 6, 167, 237, 77, 215, 188, 167, 127>>
    [] c = <<255, 0, 1, 1, 255, 255>> ->
      <<55, 116, 5, 223, 157, 204, 51, 69, 45, 36, 140, 230, 201, 15, 223, 41, 106, 204, 4, 174, 118, 97, 223, 251, 62, 129, 29, 86, 168, 198, 28, 190>>
    [] c = <<255, 0, 1, 255, 0, 0>> ->
      <<223, 17, 7, 76, 248, 170, 149, 145, 245, 179, 225, 128, 253, 219, 203, 20, 204, 255, 72, 236, 246, 41, 81, 62, 174, 213, 68, 120, 137, 253, 244, 107>>
    [] c = <<255, 0, 1, 255, 0, 1>> ->
      <<124, 144, 44, 235, 209, 196, 126, 202, 241, 163, 72, 255, 65, 55, 154, 7, 24, 208, 150, 196, 72, 119, 2, 149, 15, 234, 98, 122, 117, 212, 172, 239>>
    [] c = <<255, 0, 1, 255, 0, 255>> ->
      <<75, 61, 2, 159, 235, 70, 105, 42, 228, 31, 216, 190, 242, 10, 109, 90, 41, 139, 169, 89, 40, 8, 148, 146, 240, 90, 240, 62, 219, 213, 232, 29>>
    [] c = <<255, 0, 1, 255, 1, 0>> ->
      <<25, 181, 131, 67, 44, 44, 56, 134, 211, 224, 22, 195, 54, 13, 239, 83, 222, 160, 190, 69, 163, 53, 153, 243, 26, 243, 13, 160, 159, 165, 252, 43>>
    [] c = <<255, 0, 1, 255, 1, 1>> ->
      <<19, 114, 63, 155, 0, 133, 104, 142, 76, 152, 163, 144, 115, 229, 222, 165, 82, 69, 139, 236, 32, 173, 70, 194, 26, 218, 171, 195, 37, 255, 236, 35>>
    [] c = <<255, 0, 1, 255, 1, 255>> ->
      <<94, 150, 211, 238, 210, 36, 63, 180, 93, 210, 84, 99, 12, 181, 96, 174, 145, 33, 176, 131, 237, 180, 73, 255, 133, 23, 76, 216, 212, 248, 80, 133>>
    [] c = <<255, 0, 1, 255, 255, 0>> ->
      <<42, 217, 226, 206, 103, 11, 246, 122, 17, 120, 242, 143, 224, 190, 27, 142, 213, 215, 214, 236, 46, 131, 126, 20, 248, 94, 173, 75, 132, 93, 248, 103>>
    [] c = <<255, 0, 1, 255, 255, 1>> ->
      <<161, 39, 10, 242, 56, 2, 144, 153, 138, 119, 137, 93, 105, 20, 33, 251, 132, 94, 33, 160, 156, 229, 35, 169, 216, 144, 148, 144, 20, 179, 87, 166>>
    [] c = <<255, 0, 1, 255, 255, 255>> ->
      <<139, 194, 244, 206, 54, 97, 13, 67, 77, 15, 210, 223, 120, 87, 125, 27, 99, 222, 67, 219, 69, 249, 51, 144, 127, 241, 227, 55, 97, 182, 255, 162>>
    [] c = <<255, 0, 255, 0, 0, 0>> ->
      <<21, 82, 102, 78, 79, 1, 199, 13, 159, 9, 118, 236, 254, 78, 15, 198, 192, 197, 149, 194, 236, 114, 48, 2, 67, 253, 8, 224, 181, 109, 98, 239>>
    [] c = <<255, 0, 255, 0, 0, 1>> ->
      <<215, 170, 31, 44, 96, 31, 77, 233, 236, 217, 16, 234, 123, 141, 255, 4, 167, 24, 218, 173, 4, 183, 136, 22, 212, 211, 123, 172, 3, 16, 40, 158>>
    [] c = <<255, 0, 255, 0, 0, 255>> ->
      <<188, 49, 126, 1, 254, 132, 3, 135, 19, 34, 249, 69, 121, 185, 227, 44, 211, 188, 130, 23, 153, 250, 111, 185, 72, 240, 104, 218, 242, 75, 174, 128>>
    [] c = <<255, 0, 255, 0, 1, 0>> ->
      <<222, 11, 2, 240, 13, 60, 232, 29, 20, 159, 8, 2, 71, 137, 107, 239, 108, 200, 26, 131, 83, 211, 209, 101, 1, 218, 136, 46, 251, 143, 151, 81>>
    [] c = <<255, 0, 255, 0, 1, 1>> ->
      <<47, 54, 206, 145, 106, 185, 168, 225, 66, 198, 119, 81, 133, 52, 190, 195, 20, 39, 20, 13, 100, 209, 94, 60, 222, 12, 166, 28, 192, 151, 5, 173>>
    [] c = <<255, 0, 255, 0, 1, 255>> ->
      <<105, 7, 166, 206, 15, 44, 138, 39, 178, 102, 53, 155, 12, 67, 133, 249, 139, 110, 188, 152, 195, 16, 228, 180, 45, 159, 214, 81, 79, 93, 194, 0>>
    [] c = <<255, 0, 255, 0, 255, 0>> ->
      <<25, 46, 18, 41, 74, 163, 5, 6, 139, 243, 205, 178, 145, 225, 94, 147, 28, 1, 145, 110, 92, 135, 14, 236, 226, 181, 83, 70, 199, 246, 13, 174>>
    [] c = <<255, 0, 255, 0, 255, 1>> ->
      <<205, 176, 222, 114, 63, 214, 161, 208, 37, 250, 80, 236, 192, 87, 105, 254, 110, 124, 209, 11, 151, 180, 202, 247, 147, 20, 31, 28, 186, 195, 245, 219>>
    [] c = <<255, 0, 255, 0, 255, 255>> ->
      <<247, 101, 30, 83, 50, 16, 133, 19, 110, 229, 140, 21, 102, 30, 158, 80, 43, 4, 124, 114, 196, 110, 22, 99, 6, 210, 20, 204, 166, 63, 68, 23>>
    [] c = <<255, 0, 255, 1, 0, 0>> ->
      <<112, 91, 116, 78, 240, 26, 12, 250, 7, 18, 188, 249, 220, 114, 132, 71, 120, 237, 184, 50, 87, 78, 60, 131, 151, 173, 177, 238, 125, 176, 163, 32>>
    [] c = <<255, 0, 255, 1, 0, 1>> ->
      <<186, 147, 125, 53, 166, 114, 149, 79, 66, 128, 242, 247, 12, 228, 129, 135, 247, 201, 244, 111, 79, 165, 9, 208, 219, 96, 27, 240, 217, 179, 210, 20>>
    [] c = <<255, 0, 255, 1, 0, 255>> ->
      <<68, 153, 240, 104, 137, 92, 198, 32, 72, 229, 95, 75, 109, 112, 205, 206, 54, 108, 26, 80, 220, 11, 181, 34, 35, 182, 110, 117, 64, 249, 27, 116>>
    [] c = <<255, 0, 255, 1, 1, 0>> ->
      <<150, 228, 238, 102, 28, 190, 85, 51, 239, 80, 2, 226, 224, 176, 55, 29, 128, 90, 91, 52, 5, 173, 54, 42, 233, 156, 135, 96, 254, 244, 153, 209>>
    [] c = <<255, 0, 255, 1, 1, 1>> ->
      <<170, 35, 208, 81, 99, 57, 13, 166, 253, 100, 44, 213, 34, 178, 194, 99, 169, 193, 70, 0, 58, 32, 117, 113, 22, 9, 90, 185, 195, 204, 210, 94>>
    [] c = <<255, 0, 255, 1, 1, 255>> ->
      <<136, 228, 35, 99, 178, 69, 19, 9, 150, 232, 5, 31, 141, 99, 10, 95, 113, 65, 80, 92, 186, 120, 125, 97, 115, 167, 229, 196, 42, 76, 100, 141>>
    [] c = <<255, 0, 255, 1, 255, 0>> ->
      <<36, 255, 21, 196, 234, 226, 128, 47, 196, 129, 125, 61, 69, 50, 130, 14, 161, 241, 202, 246, 134, 8, 151, 219, 71, 188, 193, 181, 204, 218, 81, 128>>
    [] c = <<255, 0, 255, 1, 255, 1>> ->
      <<179, 200, 123, 115, 69, 147, 84, 79, 155, 23, 44, 33, 217, 57, 232, 57, 40, 71, 154, 204, 202, 61, 219, 77, 26, 157, 51, 88, 122, 99, 91, 172>>
    [] c = <<255, 0, 255, 1, 255, 255>> ->
      <<178, 55, 96, 98, 53, 140, 227, 126, 17, 114, 17, 11, 77, 173, 20, 21, 97, 77, 76, 18, 188, 230, 25, 120, 183, 159, 141, 53, 188, 20, 176, 171>>
    [] c = <<255, 0, 255, 255, 0, 0>> ->
      <<158, 113, 171, 221, 34, 179, 24, 154, 57, 41, 200, 83, 60, 242, 224, 90, 167, 125, 22, 110, 182, 106, 98, 9, 228, 104, 9, 215, 64, 155, 100, 227>>
    [] c = <<255, 0, 255, 255, 0, 1>> ->
      <<175, 41, 186, 234, 162, 118, 97, 212, 186, 228, 26, 33, 189, 226, 93, 1, 51, 11, 208, 24, 103, 110, 74, 122, 72, 54, 211, 229, 159, 28, 26, 50>>
    [] c = <<255, 0, 255, 255, 0, 255>> ->
      <<72, 77, 204, 4, 67, 113, 104, 225, 21, 236, 0, 167, 61, 224, 212, 156, 9, 49, 140, 168, 217, 206, 87, 136, 39, 63, 198, 239, 73, 53, 33, 165>>
    [] c = <<255, 0, 255, 255, 1, 0>> ->
      <<221, 49, 208, 131, 20, 24, 230, 13, 124, 177, 185, 240, 236, 144, 52, 200, 57, 77, 250, 136, 207, 190, 162, 51, 16, 65, 176, 122, 252, 32, 166, 5>>
    [] c = <<255, 0, 255, 255, 1, 1>> ->
      <<28, 28, 175, 12, 43, 246, 184, 89, 188, 23, 237, 3, 199, 79, 9, 48, 219, 77, 234, 209, 154, 177, 6, 218, 60, 251, 239, 114, 120, 6, 86, 53>>
    [] c = <<255, 0, 255, 255, 1, 255>> ->
      <<238, 28, 226, 88, 187, 229, 128, 194, 195, 133, 142, 139, 145, 162, 114, 13, 157, 135, 177, 176, 94, 126, 99, 98, 92, 195, 40, 143, 11, 248, 96, 143>>
    [] c = <<255, 0, 255, 255, 255, 0>> ->
      <<190, 214, 152, 116, 231, 28, 183, 171, 254, 51, 118, 177, 42, 223, 97, 26, 192, 144, 27, 127, 27, 187, 195, 203, 213, 211, 150, 217, 148, 225, 61, 192>>
    [] c = <<255, 0, 255, 255, 255, 1>> ->
      <<149, 14, 139, 245, 25, 248, 212, 255, 48, 173, 169, 198, 123, 251, 4, 44, 148, 35, 218, 38, 120, 39, 222, 129, 212, 164, 184, 253, 135, 71, 198, 47>>
    [] c = <<255, 0, 255, 255, 255, 255>> ->
      <<45, 68, 177, 174, 96, 6, 173, 128, 86, 153, 4, 233, 181, 33, 236, 175, 96, 157, 10, 52, 8, 21, 177, 135, 232, 53, 127, 123, 180, 200, 242, 149>>
    [] c = <<255, 1, 0, 0, 0, 0>> ->
      <<101, 124, 173, 116, 163, 198, 251, 58, 131, 65, 107, 51, 63, 14, 94, 198, 92, 171, 6, 197, 72, 216, 71, 5, 237, 247, 200, 255, 238, 143, 233, 230>>
    [] c = <<255, 1, 0, 0, 0, 1>> ->
      <<139, 246, 95, 175, 237, 198, 212, 54, 209, 185, 233, 21, 87, 140, 141, 64, 43, 66, 124, 190, 123, 70, 243, 119, 159, 104, 92, 89, 205, 92, 128, 230>>
    [] c = <<255, 1, 0, 0, 0, 255>> ->
      <<97, 6, 170, 209, 100, 146, 225, 76, 38, 49, 75, 211, 10, 12, 21, 177, 78, 38, 71, 233, 82, 153, 171, 8, 131, 46, 101, 147, 2, 229, 91, 213>>
    [] c = <<255, 1, 0, 0, 1, 0>> ->
      <<246, 27, 197, 64, 152, 170, 151, 209, 179, 227, 138, 141, 66, 212, 137, 37, 224, 157, 78, 205, 42, 78, 236, 81, 150, 103, 101, 32, 164, 131, 135, 35>>
    [] c = <<255, 1, 0, 0, 1, 1>> ->
      <<92, 60, 105, 142, 204, 213, 45, 227, 119, 146, 82, 201, 56, 100, 236, 189, 61, 166, 61, 251, 69, 175, 45, 107, 29, 102, 196, 107, 11, 114, 22, 192>>
    [] c = <<255, 1, 0, 0, 1, 255>> ->
      <<117, 16, 99, 44, 58, 165, 247, 154, 130, 71, 157, 134, 159, 160, 142, 149, 142, 155, 120, 101, 124, 65, 97, 112, 90, 1, 209, 95, 9, 127, 86, 171>>
    [] c = <<255, 1, 0, 0, 255, 0>> ->
      <<117, 97, 181, 52, 160, 4, 160, 178, 79, 223, 170, 144, 33, 141, 114, 153, 171, 179, 66, 65, 129, 122, 204, 83, 251, 224, 215, 122, 106, 144, 28, 143>>
    [] c = <<255, 1, 0, 0, 255, 1>> ->
      <<77, 109, 178, 212, 152, 180, 152, 106, 43, 29, 202, 97, 68, 226, 247, 12, 242, 150, 77, 205, 29, 9, 32, 254, 204, 86, 130, 129, 116, 95, 5, 65>>
    [] c = <<255, 1, 0, 0, 255, 255>> ->
      <<107, 176, 23, 183, 245, 240, 237, 1, 165, 207, 247, 87, 194, 178, 172, 117, 11, 107, 93, 71, 73, 217, 58, 195, 148, 67, 226, 211, 32, 70, 18, 4>>
    [] c = <<255, 1, 0, 1, 0, 0>> ->
      <<90, 161, 196, 93, 208, 160, 201, 105, 42, 153, 13, 77, 202, 71, 94, 56, 60, 136, 64, 141, 133, 110, 177, 139, 56, 224, 125, 201, 57, 88, 226, 170>>
    [] c = <<255, 1, 0, 1, 0, 1>> ->
      <<17, 130, 104, 173, 41, 41, 21, 244, 33, 193, 171, 128, 139, 112, 7, 156, 144, 213, 64, 68, 153, 31, 17, 99, 114, 36, 24, 95, 8, 152, 74, 161>>
    [] c = <<255, 1, 0, 1, 0, 255>> ->
      <<121, 81, 88, 81, 157, 81, 104, 254, 45, 78, 234, 135, 181, 11, 220, 16, 0, 40, 29, 225, 239, 70, 172, 221, 139, 189, 225, 77, 246, 43, 50, 175>>
    [] c = <<255, 1, 0, 1, 1, 0>> ->
      <<51, 135, 208, 87, 158, 82, 229, 196, 14, 240, 101, 25, 241, 187, 91, 52, 186, 196, 114, 82, 22, 199, 154, 103, 212, 152, 51, 179, 55, 81, 113, 172>>
    [] c = <<255, 1, 0, 1, 1, 1>> ->
      <<133, 21, 102, 123, 206, 206, 229, 151, 173, 114, 221, 251, 210, 196, 41, 227, 19, 186, 144, 41, 133, 107, 109, 99, 204, 108, 77, 45, 219, 145, 109, 223>>
    [] c = <<255, 1, 0, 1, 1, 255>> ->
      <<110, 67, 239, 42, 19, 61, 34, 222, 62, 180, 142, 252, 230, 182, 153, 50, 186, 85, 221, 165, 99, 107, 187, 41, 84, 52, 131, 20, 26, 81, 150, 217>>
    [] c = <<255, 1, 0, 1, 255, 0>> ->
      <<94, 144, 44, 43, 217, 126, 83, 49, 98, 194, 17, 243, 135, 115, 230, 5, 253, 205, 105, 178, 166, 91, 249, 40, 29, 169, 165, 196, 119, 187, 73, 228>>
    [] c = <<255, 1, 0, 1, 255, 1>> ->
      <<85, 175, 173, 98, 38, 41, 125, 8, 84, 150, 138, 139, 150, 37, 142, 229, 41, 133, 243, 242, 109, 51, 232, 201, 142, 43, 81, 68, 124, 219, 135, 29>>
    [] c = <<255, 1, 0, 1, 255, 255>> ->
      <<169, 123, 234, 240, 241, 157, 118, 152, 59, 73, 78, 76, 105, 99, 215, 34, 129, 250, 219, 151, 111, 100, 137, 246, 118, 177, 167, 251, 163, 146, 21, 247>>
    [] c = <<255, 1, 0, 255, 0, 0>> ->
      <<112, 97, 112, 170, 83, 163, 192, 64, 206, 253, 204, 153, 181, 17, 166, 63, 238, 52, 12, 162, 189, 224, 113, 218, 110, 77, 26, 158, 239, 31, 67, 48>>
    [] c = <<255, 1, 0, 255, 0, 1>> ->
      <<231, 202, 20, 118, 38, 232, 194, 68, 155, 117, 44, 230, 106, 105, 65, 244, 213, 255, 27, 162, 201, 90, 220, 247, 218, 1, 202, 7, 140, 243, 60, 194>>
    [] c = <<255, 1, 0, 255, 0, 255>> ->
      <<54, 206, 4, 101, 178, 140, 180, 113, 174, 149, 34, 253, 126, 5, 81, 39, 16, 246, 115, 104, 28, 221, 4, 140, 149, 138, 176, 87, 137, 230, 207, 21>>
    [] c = <<255, 1, 0, 255, 1, 0>> ->
      <<125, 32, 213, 156, 143, 222, 27, 53, 214, 129, 217, 36, 189, 39, 145, 228, 186, 202, 184, 193, 191, 8, 93, 250, 162, 137, 200, 184, 239, 64, 213, 80>>
    [] c = <<255, 1, 0, 255, 1, 1>> ->
      <<219, 248, 122, 5, 139, 184, 221, 40, 247, 53, 146, 161, 47, 191, 82, 167, 218, 101, 116, 15, 99, 45, 60, 63, 134, 181, 156, 215, 220, 21, 152, 129>>
    [] c = <<255, 1, 0, 255, 1, 255>> ->
      <<200, 250, 240, 94, 213, 110, 202, 159, 206, 143, 44, 66, 59, 180, 100, 110, 166, 201, 225, 158, 8, 182, 174, 59, 147, 85, 8, 88, 169, 70, 89, 207>>
    [] c = <<255, 1, 0, 255, 255, 0>> ->
      <<200, 9, 241, 254, 193, 59, 253, 182, 123, 224, 0, 170, 199, 145, 37, 202, 55, 24, 253, 70, 218, 49, 190, 189, 79, 102, 18, 119, 23, 21, 248, 115>>
    [] c = <<255, 1, 0, 255, 255, 1>> ->
      <<215, 11, 81, 3, 180, 150, 138, 223, 203, 91, 232, 135, 12, 165, 65, 11, 208, 253, 37, 166, 56, 247, 81, 221, 189, 119, 77, 22, 218, 103, 26, 9>>
    [] c = <<255, 1, 0, 255, 255, 255>> ->
      <<140, 154, 23, 104, 23, 133, 62, 151, 240, 156, 229, 111, 144, 204, 217, 92, 58, 240, 236, 79, 142, 59, 50, 86, 51, 2, 81, 196, 131, 126, 19, 166>>
    [] c = <<255, 1, 1, 0, 0, 0>> ->
      <<123, 253, 118, 216, 47, 10, 129, 82, 25, 172, 127, 37, 75, 164, 247, 245, 38, 21, 21, 52, 140, 198, 205, 52, 178, 18, 170, 98, 214, 52, 156, 66>>
    [] c = <<255, 1, 1, 0, 0, 1>> ->
      <<109, 73, 15, 168, 98, 135, 61, 169, 10, 103, 76, 66, 66, 15, 71, 132, 252, 143, 122, 243, 138, 10, 88, 30, 142, 149, 249, 65, 218, 230, 19, 199>>
    [] c = <<255, 1, 1, 0, 0, 255>> ->
      <<226, 135, 45, 170, 160, 101, 250, 220, 159, 27, 9, 80, 179, 96, 248, 50, 110, 190, 148, 228, 100, 88, 106, 193, 170, 165, 62, 234, 78, 200, 121, 244>>
    [] c = <<255, 1, 1, 0, 1, 0>> ->
      <<67, 136, 90, 70, 130, 87, 181, 18, 88, 227, 148, 174, 153, 64, 212, 247, 4, 187, 192, 228, 148, 80, 10, 189, 161, 24, 64, 94, 137, 25, 85, 161>>
    [] c = <<255, 1, 1, 0, 1, 1>> ->
      <<4, 77, 5, 239, 218, 44, 152, 36, 37, 105, 30, 219, 56, 83, 127, 90, 216, 142, 244, 149, 214, 231, 93, 25, 62, 254, 42, 157, 186, 234, 114, 254>>
    [] c = <<255, 1, 1, 0, 1, 255>> ->
      <<44, 90, 168, 159, 129, 154, 117, 35, 51, 161, 193, 218, 141, 245, 144, 42, 193, 189, 219, 235, 253, 94, 53, 241, 6, 62, 81, 195, 191, 57, 29, 24>>
    [] c = <<255, 1, 1, 0, 255, 0>> ->
      <<192, 200, 227, 16, 96, 33, 75, 14, 250, 246, 171, 149, 160, 94, 133, 205, 209, 172, 125, 154, 31, 58, 91, 68, 116, 119, 202, 20, 111, 113, 76, 165>>
    [] c = <<255, 1, 1, 0, 255, 1>> ->
      <<27, 38, 148, 175, 99, 224, 6, 101, 58, 132, 24, 83, 174, 1, 61, 213, 53, 18, 7, 136, 144, 15, 172, 168, 185, 141, 180, 3, 3, 55, 31, 206>>
    [] c = <<255, 1, 1, 0, 255, 255>> ->
      <<130, 150, 226, 31, 200, 87, 43, 91, 220, 104, 166, 108, 223, 190, 186, 113, 123, 129, 66, 230, 247, 97, 50, 16, 186, 165, 53, 191, 219, 45, 41, 38>>
    [] c = <<255, 1, 1, 1, 0, 0>> ->
      <<107, 225, 158, 237, 94, 166, 0, 132, 135, 167, 241, 107, 133, 186, 67, 186, 81, 97, 241, 181, 163, 70, 18, 104, 217, 220, 65, 146, 20, 254, 200, 121>>
    [] c = <<255, 1, 1, 1, 0, 1>> ->
      <<36, 100, 70, 193, 157, 132, 182, 254, 157, 174, 173, 94, 121, 14, 69, 73, 60, 158, 153, 207, 215, 227, 38, 46, 41, 25, 85, 25, 87, 119, 41, 252>>
    [] c = <<255, 1, 1, 1, 0, 255>> ->
      <<198, 225, 140, 196, 204, 145, 58, 101, 33, 206, 30, 127, 164, 253, 118, 139, 63, 81, 103, 41, 120, 188, 139, 12, 158, 79, 2, 180, 181, 175, 48, 236>>
    [] c = <<255, 1, 1, 1, 1, 0>> ->
      <<168, 176, 90, 118, 13, 239, 18, 60, 97, 172, 223, 25, 142, 241, 3, 60, 93, 213, 29, 55, 107, 210, 211, 92, 135, 226, 83, 191, 254, 216, 8, 190>>
    [] c = <<255, 1, 1, 1, 1, 1>> ->
      <<1, 90, 46, 237, 126, 110, 209, 228, 104, 132, 211, 199, 182, 49, 69, 50, 131, 204, 167, 23, 77, 4, 6, 222, 60, 171, 164, 15, 209, 253, 152, 187>>
    [] c = <<255, 1, 1, 1, 1, 255>> ->
      <<183, 1, 188, 137, 212, 254, 245, 56, 21, 186, 208, 96, 125, 251, 171, 21, 93, 68, 85, 34, 165, 157, 78, 87, 106, 47, 26, 201, 159, 228, 131, 16>>
    [] c = <<255, 1, 1, 1, 255, 0>> ->
      <<15, 140, 150, 55, 56, 148, 250, 67, 228, 144, 192, 180, 210, 78, 193, 4, 232, 104, 53, 81, 166, 165, 21, 97, 181, 175, 42, 234, 196, 242, 104, 120>>
    [] c = <<255, 1, 1, 1, 255, 1>> ->
      <<124, 138, 131, 4, 117, 252, 90, 249, 91, 86, 127, 43, 201, 214, 196, 2, 16, 207, 204, 176, 45, 67, 18, 217, 169, 65, 249, 233, 62, 176, 21, 134>>
    [] c = <<255, 1, 1, 1, 255, 255>> ->
      <<184, 209, 222, 221, 93, 88, 193, 254, 116, 232, 181, 182, 113, 138, 133, 166, 105, 140, 215, 224, 62, 156, 83, 143, 40, 185, 22, 231, 236, 137, 158, 164>>
    [] c = <<255, 1, 1, 255, 0, 0>> ->
      <<32, 175, 188, 103, 104, 113, 143, 107, 55, 174, 11, 234, 189, 86, 199, 202, 173, 70, 47, 145, 4, 193, 31, 182, 179, 55, 246, 119, 175, 225, 74, 166>>
    [] c = <<255, 1, 1, 255, 0, 1>> ->
      <<198, 232, 110, 77, 151, 10, 10, 189, 187, 240, 8, 247, 38, 179, 14, 89, 149, 125, 21, 68, 125, 42, 79, 22, 229, 70, 91, 46, 12, 171, 252, 232>>
    [] c = <<255, 1, 1, 255, 0, 255>> ->
      <<187, 16, 53, 224, 101, 121, 247, 230, 177, 76, 113, 141, 140, 240, 253, 160, 252, 104, 225, 52, 22, 182, 61, 131, 205, 56, 156, 55, 54, 116, 110, 214>>
    [] c = <<255, 1, 1, 255, 1, 0>> ->
      <<223, 87, 251, 253, 141, 56, 254, 84, 233, 44, 157, 65, 1, 33, 174, 192, 157, 204, 194, 228, 62, 97, 23, 32, 102, 181, 248, 201, 81, 6, 140, 201>>
    [] c = <<255, 1, 1, 255, 1, 1>> ->
      <<6, 139, 226, 190, 169, 64, 27, 120, 225, 94, 61, 175, 124, 48, 129, 123, 146, 9, 156, 155, 7, 156, 215, 91, 112, 81, 137, 141, 145, 253, 252, 219>>
    [] c = <<255, 1, 1, 255, 1, 255>> ->
      <<92, 73, 219, 169, 58, 148, 30, 134, 18, 114, 63, 226, 96, 178, 109, 197, 221, 165, 90, 162, 22, 187, 38, 102, 211, 35, 76, 107, 225, 115, 128, 238>>
    [] c = <<255, 1, 1, 255, 255, 0>> ->
      <<242, 129, 168, 53, 197, 4, 132, 159, 172, 76, 156, 166, 51, 191, 203, 212, 253, 130, 225, 238, 28, 162, 250, 146, 221, 195, 29, 244, 5, 67, 172, 148>>
    [] c = <<255, 1, 1, 255, 255, 1>> ->
      <<139, 140, 18, 202, 249, 212, 111, 204, 35, 59, 18, 168, 31, 113, 244, 162, 130, 227, 34, 183, 9, 219, 136, 200, 150, 214, 133, 129, 62, 234, 248, 134>>
    [] c = <<255, 1, 1, 255, 255, 255>> ->
      <<120, 185, 127, 10, 233, 17, 12, 4, 157, 64, 45, 16, 111, 87, 119, 182, 60, 172, 53, 116, 219, 126, 227, 225, 13, 52, 154, 243, 183, 72, 177, 170>>
    [] c = <<255, 1, 255, 0, 0, 0>> ->
      <<161, 194, 212, 164, 88, 68, 52, 194, 212, 32, 15, 6, 124, 27, 72, 109, 192, 158, 206, 237, 165, 49, 18, 164, 191, 223, 84, 50, 198, 7, 52, 145>>
    [] c = <<255, 1, 255, 0, 0, 1>> ->
      <<45, 14, 86, 7, 166, 65, 57, 72, 136, 97, 94, 165, 32, 108, 8, 208, 197, 170, 210, 158, 71, 76, 0, 205, 236, 60, 148, 222, 80, 249, 158, 217>>
    [] c = <<255, 1, 255, 0, 0, 255>> ->
      <<141, 156, 229, 174, 88, 244, 167, 157, 190, 117, 40, 51, 133, 46, 208, 170, 62, 36, 219, 184, 180, 169, 44, 205, 201, 224, 6, 189, 89, 189, 168, 140>>
    [] c = <<255, 1, 255, 0, 1, 0>> ->
      <<212, 199, 190, 149, 75, 0, 87, 112, 199, 79, 93, 179, 87, 164, 169, 147, 5, 210, 205, 163, 113, 242, 216, 249, 167, 106, 184, 117, 153, 111, 239, 220>>
    [] c = <<255, 1, 255, 0, 1, 1>> ->
      <<18, 226, 2, 58, 165, 253, 221, 59, 210, 36, 76, 137, 255, 176, 87, 129, 35, 206, 24, 77, 21, 148, 68, 135, 207, 218, 227, 168, 18, 48, 163, 214>>
    [] c = <<255, 1, 255, 0, 1, 255>> ->
      <<120, 235, 169, 112, 96, 43, 66, 162, 107, 217, 66, 141, 200, 99, 139, 230, 215, 51, 175, 78, 200, 63, 179, 10, 83, 184, 31, 74, 51, 78, 3, 19>>
    [] c = <<255, 1, 255, 0, 255, 0>> ->
      <<144, 230, 91, 191, 240, 23, 143, 130, 119, 248, 36, 144, 46, 209, 128, 119, 205, 94, 105, 248, 178, 221, 246, 248, 38, 122, 138, 102, 163, 158, 194, 14>>
    [] c = <<255, 1, 255, 0, 255, 1>> ->
      <<2, 167, 198, 159, 14, 39, 227, 48, 92, 252, 252, 213, 77, 108, 100, 157, 147, 177, 34, 83, 127, 239, 193, 253, 231, 235, 28, 82, 77, 218, 43, 70>>
    [] c = <<255, 1, 255, 0, 255, 255>> ->
      <<3, 56, 147, 188, 56, 80, 141, 60, 154, 252, 164, 71, 193, 49, 50, 105, 109, 44, 228, 79, 105, 33, 195, 232, 240, 153, 213, 181, 198, 81, 71, 109>>
    [] c = <<255, 1, 255, 1, 0, 0>> ->
      <<221, 24, 214, 20, 144, 60, 242, 226, 193, 200, 161, 132, 207, 154, 200, 106, 143, 196, 175, 99, 240, 66, 247, 170, 112, 47, 69, 152, 9, 147, 20, 67>>
    [] c = <<255, 1, 255, 1, 0, 1>> ->
      <<165, 248, 62, 201, 234, 16, 86, 236, 112, 67, 88, 52, 87, 159, 76, 76, 226, 28, 102, 105, 207, 225, 16, 95, 190, 252, 101, 253, 2, 241, 163, 190>>
    [] c = <<255, 1, 255, 1, 0, 255>> ->
      <<40, 211, 105, 97, 184, 68, 44, 45, 44, 158, 137, 235, 98, 58, 65, 40, 140, 77, 167, 43, 219, 161, 108, 160, 232, 107, 217, 59, 235, 54, 124, 17>>
    [] c = <<255, 1, 255, 1, 1, 0>> ->
      <<131, 165, 197, 22, 132, 21, 176, 195, 133, 176, 88, 180, 171, 210, 105, 115, 101, 65, 63, 214, 174, 221, 188, 110, 69, 166, 170, 33, 232, 215, 134, 95>>
    [] c = <<255, 1, 255, 1, 1, 1>> ->
      <<151, 255, 79, 152, 255, 158, 48, 66, 244, 138, 191, 194, 33, 97, 207, 173, 99, 117, 65, 12, 45, 195, 69, 23, 118, 152, 209, 137, 132, 120, 146, 202>>
    [] c = <<255, 1, 255, 1, 1, 255>> ->
      <<246, 142, 249, 205, 228, 187, 200, 147, 201, 176, 234, 154, 131, 113, 43, 134, 72, 70, 245, 236, 40, 4, 23, 12, 16, 108, 29, 163, 178, 87, 120, 1>>
    [] c = <<255, 1, 255, 1, 255, 0>> ->
      <<102, 253, 151, 196, 220, 216, 61, 77, 84, 146, 216, 123, 196, 141, 27, 223, 68, 169, 35, 94, 233, 44, 233, 87, 146, 203, 69, 21, 202, 67, 175, 217>>
    [] c = <<255, 1, 255, 1, 255, 1>> ->
      <<79, 233, 249, 41, 14, 13, 74, 109, 109, 203, 206, 175, 142, 25, 158, 18, 199, 77, 113, 75, 163, 28, 193, 134, 238, 249, 164, 55, 59, 254, 188, 190>>
    [] c = <<255, 1, 255, 1, 255, 255>> ->
      <<235, 212, 191, 26, 54, 38, 206, 41, 124, 227, 12, 164, 57, 217, 216, 223, 149, 123, 155, 235, 79, 49, 71, 71, 133, 170, 136, 35, 161, 87, 168, 65>>
    [] c = <<255, 1, 255, 255, 0, 0>> ->
      <<231, 221, 231, 200, 227, 255, 67, 123, 218, 181, 153, 95, 131, 115, 246, 112, 56, 160, 166, 160, 137, 150, 80, 91, 94, 232, 88, 178, 135, 231, 60, 217>>
    [] c = <<255, 1, 255, 255, 0, 1>> ->
      <<20, 107, 68, 213, 187, 55, 93, 167, 49, 153, 160, 17, 230, 164, 232, 17, 53, 230, 140, 64, 88, 14, 143, 251, 201, 167, 129, 108, 196, 38, 0, 166>>
    [] c = <<255, 1, 255, 255, 0, 255>> ->
      <<77, 13, 35, 40, 23, 98, 135, 94, 64, 165, 132, 60, 123, 64, 36, 120, 221, 81, 122, 60, 33, 14, 221, 0, 74, 51, 189, 0, 239, 104, 115, 248>>
    [] c = <<255, 1, 255, 255, 1, 0>> ->
      <<41, 205, 82, 31, 101, 114, 65, 224, 193, 240, 182, 228, 245, 205, 173, 231, 224, 198, 66, 199, 138, 240, 35, 19, 226, 167, 210, 219, 18, 255, 43, 44>>
    [] c = <<255, 1, 255, 255, 1, 1>> ->
      <<69, 114, 224, 95, 218, 6, 239, 88, 26, 236, 37, 77, 120, 82, 179, 13, 94, 92, 72, 237, 186, 164, 202, 165, 153, 255, 186, 172, 107, 104, 232, 33>>
    [] c = <<255, 1, 255, 255, 1, 255>> ->
      <<48, 83, 180, 145, 194, 237, 49, 235, 153, 43, 170, 224, 104, 14, 136, 202, 16, 189, 13, 182, 223, 86, 66, 142, 179, 191, 169, 161, 125, 160, 25, 237>>
    [] c = <<255, 1, 255, 255, 255, 0>> ->
      <<46, 237, 22, 146, 121, 218, 77, 106, 31, 58, 25, 174, 23, 29, 252, 21, 76, 38, 124, 118, 40, 88, 197, 18, 95, 77, 249, 196, 248, 192, 167, 61>>
    [] c = <<255, 1, 255, 255, 255, 1>> ->
      <<126, 182, 141, 133, 104, 59, 202, 195, 117, 41, 234, 159, 38, 237, 118, 144, 243, 208, 53, 154, 223, 60, 40, 152, 24, 165, 233, 26, 253, 59, 134, 244>>
    [] c = <<255, 1, 255, 255, 255, 255>> ->
      <<20, 19, 255, 145, 75, 91, 219, 55, 105, 157, 236, 161, 163, 63, 124, 210, 209, 196, 218, 4, 17, 14, 21, 44, 233, 1, 94, 23, 10, 87, 132, 237>>
    [] c = <<255, 255, 0, 0, 0, 0>> ->
      <<197, 208, 53, 109, 110, 110, 157, 14, 106, 15, 220, 0, 160, 53, 125, 130, 44, 187, 247, 109, 37, 126, 93, 112, 47, 140, 207, 19, 247, 13, 200, 250>>
    [] c = <<255, 255, 0, 0, 0, 1>> ->
      <<230, 215, 127, 40, 47, 54, 146, 20, 2, 26, 244, 234, 52, 230, 94, 21, 88, 184, 48, 210, 227, 249, 85, 52, 170, 221, 186, 16, 139, 251, 2, 36>>
    [] c = <<255, 255, 0, 0, 0, 255>> ->
      <<168, 227, 242, 104, 91, 240, 37, 200, 204, 144, 239, 53, 22, 155, 211, 110, 169, 40, 200, 80, 107, 90, 202, 253, 15, 147, 95, 211, 19, 131, 185, 174>>
    [] c = <<255, 255, 0, 0, 1, 0>> ->
      <<216, 17, 76, 11, 129, 42, 224, 237, 39, 74, 15, 206, 208, 30, 91, 136, 95, 89, 7, 124, 133, 230, 199, 210, 173, 152, 68, 61, 164, 221, 209, 97>>
    [] c = <<255, 255, 0, 0, 1, 1>> ->
      <<32, 177, 173, 55, 130, 202, 213, 148, 161, 155, 155, 123, 123, 105, 81, 102, 173, 221, 40, 165, 197, 220, 157, 197, 132, 64, 134, 211, 59, 238, 160, 144>>
    [] c = <<255, 255, 0, 0, 1, 255>> ->
      <<19, 234, 25, 136, 75, 15, 69, 228, 80, 107, 25, 213, 66, 229, 19, 195, 105, 132, 106, 94, 213, 229, 101, 98, 226, 76, 85, 4, 236, 119, 236, 222>>
    [] c = <<255, 255, 0, 0, 255, 0>> ->
      <<247, 245, 204, 158, 23, 22, 99, 34, 188, 227, 241, 17, 155, 59, 53, 163, 63, 49, 216, 21, 52, 40, 132, 107, 172, 10, 147, 6, 31, 255, 234, 13>>
    [] c = <<255, 255, 0, 0, 255, 1>> ->
      <<54, 106, 159, 250, 97, 145, 56, 48, 76, 192, 95, 13, 210, 226, 210, 3, 236, 243, 133, 147, 189, 59, 41, 158, 50, 192, 173, 55, 86, 163, 33, 60>>
    [] c = <<255, 255, 0, 0, 255, 255>> ->
      <<180, 224, 124, 144, 187, 64, 160, 87, 162, 177, 9, 42, 119, 32, 34, 169, 205, 120, 83, 69, 8, 90, 80, 205, 67, 142, 106, 117, 223, 2, 183, 42>>
    [] c = <<255, 255, 0, 1, 0, 0>> ->
      <<34, 96, 254, 31, 229, 136, 99, 248, 242, 93, 146, 114, 219, 20, 28, 233, 170, 6, 109, 91, 238, 196, 142, 180, 236, 8, 103, 152, 6, 186, 206, 175>>
    [] c = <<255, 255, 0, 1, 0, 1>> ->
      <<26, 208, 200, 124, 122, 206, 171, 45, 4, 4, 143, 20, 203, 94, 100, 109, 73, 183, 212, 94, 102, 169, 49, 81, 57, 138, 11, 193, 116, 123, 209, 55>>
    [] c = <<255, 255, 0, 1, 0, 255>> ->
      <<146, 243, 57, 254, 234, 1, 85, 217, 102, 168, 137, 50, 187, 85, 118, 15, 190, 145, 76, 73, 182, 49, 93, 222, 209, 53, 25, 158, 182, 85, 231, 115>>
    [] c = <<255, 255, 0, 1, 1, 0>> ->
      <<72, 50, 105, 200, 229, 170, 250, 45, 229, 8, 68, 93, 124, 45, 242, 91, 71, 178, 190, 30, 154, 239, 69, 211, 228, 153, 129, 40, 83, 144, 103, 156>>
    [] c = <<255, 255, 0, 1, 1, 1>> ->
      <<66, 80, 235, 46, 5, 197, 239, 125, 9, 200, 34, 62, 166, 254, 96, 73, 115, 194, 11, 27, 51, 167, 73, 95, 189, 24, 111, 68, 9, 227, 119, 243>>
    [] c = <<255, 255, 0, 1, 1, 255>> ->
      <<45, 106, 91, 46, 11, 97, 215, 201, 24, 81, 251, 44, 85, 65, 59, 136, 195, 56, 21, 249, 241, 42, 4, 134, 163, 86, 152, 78, 116, 117, 148, 207>>
    [] c = <<255, 255, 0, 1, 255, 0>> ->
      <<152, 195, 114, 4, 89, 108, 17, 56, 146, 206, 182, 143, 228, 25, 121, 90, 157, 1, 152, 115, 17, 49, 58, 244, 211, 127, 168, 47, 118, 58, 214, 245>>
    [] c = <<255, 255, 0, 1, 255, 1>> ->
      <<102, 29, 5, 105, 202, 205, 68, 34, 56, 213, 85, 85, 103, 178, 187, 220, 34, 69, 13, 100, 225, 61, 105, 247, 208, 63, 84, 26, 149, 14, 231, 1>>
    [] c = <<255, 255, 0, 1, 255, 255>> ->
      <<246, 97, 203, 222, 121, 96, 134, 70, 130, 192, 83, 114, 88, 6, 110, 3, 252, 108, 102, 159, 208, 125, 138, 18, 121, 73, 137, 216, 36, 212, 168, 41>>
    [] c = <<255, 255, 0, 255, 0, 0>> ->
      <<126, 52, 254, 235, 99, 166, 70, 90, 70, 79, 194, 207, 119, 225, 158, 250, 113, 44, 241, 199, 103, 165, 193, 219, 145, 125, 95, 221, 79, 102, 81, 146>>
    [] c = <<255, 255, 0, 255, 0, 1>> ->
      <<4, 94, 176, 114, 37, 238, 212, 7, 105, 24, 202, 251, 136, 114, 46, 41, 181, 197, 101, 12, 75, 15, 48, 229, 110, 10, 214, 73, 110, 69, 165, 135>>
    [] c = <<255, 255, 0, 255, 0, 255>> ->
      <<19, 46, 3, 228, 223, 224, 103, 226, 34, 35, 60, 220, 179, 88, 15, 151, 240, 10, 223, 222, 213, 192, 73, 28, 27, 72, 145, 102, 243, 55, 105, 96>>
    [] c = <<255, 255, 0, 255, 1, 0>> ->
      <<57, 174, 86, 35, 234, 112, 248, 88, 77, 7, 31, 64, 11, 81, 75, 124, 168, 5, 136, 230, 168, 31, 34, 177, 137, 168, 237, 18, 118, 43, 86, 95>>
    [] c = <<255, 255, 0, 255, 1, 1>> ->
      <<128, 73, 65, 67, 20, 67, 79, 143, 160, 65, 153, 48, 185, 49, 146, 127, 134, 206, 151, 15, 176, 118, 159, 82, 193, 81, 197, 97, 170, 120, 72, 254>>
    [] c = <<255, 255, 0, 255, 1, 255>> ->
      <<36, 176, 85, 63, 24, 42, 127, 226, 172, 195, 110, 184, 179, 141, 135, 100, 246, 100, 209, 210, 151, 67, 158, 64, 105, 128, 183, 118, 246, 135, 89, 180>>
    [] c = <<255, 255, 0, 255, 255, 0>> ->
      <<200, 122, 135, 31, 33, 203, 163, 199, 39, 178, 40, 199, 167, 104, 7, 34, 123, 168, 225, 48, 73, 101, 216, 142, 75, 239, 220, 19, 79, 23, 3, 20>>
    [] c = <<255, 255, 0, 255, 255, 1>> ->
      <<208, 49, 26, 83, 115, 31, 96, 102, 17, 248, 242, 26, 79, 204, 161, 247, 187, 96, 131, 124, 203, 74, 231, 142, 198, 195, 133, 143, 214, 147, 244, 151>>
    [] c = <<255, 255, 0, 255, 255, 255>> ->
      <<201, 45, 251, 143, 20, 99, 146, 141, 12, 20, 200, 203, 185, 42, 154, 195, 216, 228, 84, 200, 39, 127, 84, 99, 80, 174, 4, 221, 89, 143, 13, 198>>
    [] c = <<255, 255, 1, 0, 0, 0>> ->
      <<36, 99, 242, 72, 244, 232, 93, 159, 86, 55, 24, 53, 221, 13, 61, 19, 99, 243, 7, 228, 1, 130, 216, 223, 189, 32, 155, 20, 150, 198, 42, 5>>
    [] c = <<255, 255, 1, 0, 0, 1>> ->
      <<211, 23, 80, 29, 39, 84, 128, 24, 209, 188, 58, 1, 0, 179, 179, 170, 114, 141, 180, 169, 59, 2, 123, 94, 60, 241, 155, 237, 104, 111, 144, 44>>
    [] c = <<255, 255, 1, 0, 0, 255>> ->
      <<228, 143, 189, 102, 156, 225, 210, 255, 83, 156, 102, 44, 73, 182, 178, 3, 161, 136, 139, 3, 172, 240, 140, 105, 171, 51, 76, 57, 204, 2, 227, 67>>
    [] c = <<255, 255, 1, 0, 1, 0>> ->
      <<94, 85, 14, 79, 209, 39, 36, 228, 151, 227, 48, 165, 35, 103, 104, 227, 55, 10, 133, 8, 20, 183, 15, 205, 80, 24, 37, 42, 57, 87, 120, 8>>
    [] c = <<255, 255, 1, 0, 1, 1>> ->
      <<106, 225, 95, 84, 177, 135, 103, 117, 247, 16, 0, 19, 235, 211, 122, 55, 99, 74, 7, 23, 48, 216, 97, 240, 194, 106, 64, 81, 123, 0, 106, 195>>
    [] c = <<255, 255, 1, 0, 1, 255>> ->
      <<143, 6, 190, 218, 22, 151, 182, 11, 154, 172, 219, 102, 85, 27, 136, 223, 223, 191, 64, 174, 166, 206, 116, 16, 227, 70, 114, 201, 52, 173, 241, 58>>
    [] c = <<255, 255, 1, 0, 255, 0>> ->
      <<238, 17, 130, 201, 204, 18, 61, 210, 190, 49, 29, 119, 32, 153, 149, 207, 166, 96, 204, 109, 82, 221, 94, 228, 104, 9, 118, 150, 16, 128, 108, 82>>
    [] c = <<255, 255, 1, 0, 255, 1>> ->
      <<5, 111, 70, 78, 106, 105, 116, 159, 33, 151, 193, 224, 156, 75, 102, 234, 122, 137, 21, 33, 133, 183, 79, 8, 11, 74, 111, 10, 211, 182, 124, 172>>
    [] c = <<255, 255, 1, 0, 255, 255>> ->
      <<253, 27, 86, 73, 90, 94, 34, 111, 112, 116, 60, 242, 123, 4, 245, 0, 33, 87, 76, 234, 124, 179, 9, 71, 72, 193, 200, 222, 217, 238, 194, 174>>
    [] c = <<255, 255, 1, 1, 0, 0>> ->
      <<73, 158, 27, 254, 181, 132, 134, 161, 144, 5, 31, 102, 9, 244, 239, 54, 173, 78, 87, 114, 72, 87, 152, 125, 112, 254, 4, 254, 111, 30, 37, 93>>
    [] c = <<255, 255, 1, 1, 0, 1>> ->
      <<191, 169, 116, 251, 34, 209, 43, 70, 177, 202, 176, 158, 162, 109, 181, 235, 51, 251, 213, 147, 62, 221, 73, 72, 153, 60, 185, 43, 40, 208, 168, 221>>
    [] c = <<255, 255, 1, 1, 0, 255>> ->
      <<193, 2, 139, 80, 50, 223, 52, 16, 54, 40, 137, 176, 44, 15, 237, 178, 162, 29, 205, 52, 155, 27, 47, 152, 106, 130, 230, 185, 78, 13, 218, 30>>
    [] c = <<255, 255, 1, 1, 1, 0>> ->
      <<26, 55, 158, 145, 73, 125, 7, 215, 53, 28, 221, 50, 17, 222, 63, 117, 14, 134, 7, 193, 66, 83, 240, 62, 246, 239, 206, 133, 239, 193, 156, 15>>
    [] c = <<255, 255, 1, 1, 1, 1>> ->
      <<127, 255, 177, 210, 89, 165, 170, 6, 210, 198, 7, 40, 186, 188, 253, 233, 56, 13, 61, 15, 183, 111, 228, 65, 9, 177, 158, 240, 200, 179, 151, 158>>
    [] c = <<255, 255, 1, 1, 1, 255>> ->
      <<56, 224, 237, 112, 188, 72, 127, 39, 106, 181, 161, 246, 73, 238, 72, 146, 208, 198, 156, 214, 232, 5, 64, 54, 229, 27, 85, 225, 60, 99, 127, 110>>
    [] c = <<255, 255, 1, 1, 255, 0>> ->
      <<13, 45, 200, 153, 245, 134, 178, 174, 210, 156, 247, 71, 73, 21, 112, 153, 123, 39, 52, 201, 238, 55, 75, 17, 103, 137, 65, 142, 115, 116, 91, 55>>
    [] c = <<255, 255, 1, 1, 255, 1>> ->
      <<170, 52, 144, 129, 245, 25, 63, 25, 64, 250, 249, 106, 196, 187, 1, 41, 102, 217, 18, 181, 139, 2, 50, 38, 54, 61, 31, 21, 163, 65, 253, 164>>
    [] c = <<255, 255, 1, 1, 255, 255>> ->
      <<24, 196, 186, 193, 25, 94, 102, 218, 169, 33, 84, 138, 216, 153, 191, 224, 106, 93, 150, 127, 128, 136, 7, 194, 70, 196, 23, 251, 227, 215, 162, 123>>
    [] c = <<255, 255, 1, 255, 0, 0>> ->
      <<109, 190, 243, 19, 15, 142, 4, 59, 103, 253, 127, 2, 64, 185, 29, 83, 156, 241, 201, 83, 31, 239, 154, 235, 202, 223, 18, 153, 74, 33, 81, 104>>
    [] c = <<255, 255, 1, 255, 0, 1>> ->
      <<185, 144, 243, 240, 137, 28, 180, 48, 158, 87, 224, 65, 211, 136, 160, 78, 47, 2, 249, 0, 112, 52, 125, 92, 240, 235, 222, 246, 70, 255, 192, 181>>
    [] c = <<255, 255, 1, 255, 0, 255>> ->
      <<206, 76, 116, 114, 51, 194, 125, 182, 161, 223, 53, 204, 19, 80, 251, 118, 167, 116, 242, 0, 211, 43, 42, 178, 47, 127, 51, 21, 36, 141, 41, 222>>
    [] c = <<255, 255, 1, 255, 1, 0>> ->
      <<149, 170, 71, 99, 197, 119, 10, 176, 112, 157, 149, 116, 84, 32, 130, 57, 54, 111, 254, 4, 170, 67, 209, 3, 236, 254, 163, 62, 110, 8, 12, 211>>
    [] c = <<255, 255, 1, 255, 1, 1>> ->
      <<118, 187, 22, 242, 222, 183, 74, 40, 181, 92, 11, 81, 42, 125, 163, 167, 174, 212, 253, 238, 58, 80, 76, 127, 191, 12, 237, 74, 254, 169, 6, 185>>
    [] c = <<255, 255, 1, 255, 1, 255>> ->
      <<202, 30, 8, 8, 45, 218, 99, 166, 149, 31, 114, 239, 191, 207, 169, 58, 53, 125, 57, 201, 196, 184, 138, 160, 11, 234, 99, 99, 96, 93, 126, 214>>
    [] c = <<255, 255, 1, 255, 255, 0>> ->
      <<186, 133, 83, 100, 185, 158, 141, 82, 169, 165, 224, 234, 120, 102, 126, 195, 8, 209, 61, 149, 208, 226, 132, 60, 254, 20, 233, 97, 112, 149, 99, 115>>
    [] c = <<255, 255, 1, 255, 255, 1>> ->
      <<18, 129, 79, 187, 155, 248, 29, 55, 46, 199, 205, 245, 121, 21, 131, 161, 70, 88, 26, 37, 224, 173, 19, 93, 237, 5, 8, 82, 107, 148, 164, 129>>
    [] c = <<255, 255, 1, 255, 255, 255>> ->
      <<108, 39, 148, 144, 207, 228, 224, 119, 208, 60, 132, 217, 121, 66, 251, 139, 217, 157, 18, 138, 202, 241, 56, 221, 20, 217, 151, 119, 42, 199, 242, 115>>
    [] c = <<255, 255, 255, 0, 0, 0>> ->
      <<19, 122, 104, 2, 166, 225, 74, 3, 207, 8, 206, 83, 170, 176, 97, 43, 71, 227, 106, 238, 45, 159, 54, 48, 34, 129, 88, 113, 249, 201, 75, 148>>
    [] c = <<255, 255, 255, 0, 0, 1>> ->
      <<200, 194, 41, 127, 117, 175, 84, 203, 39, 210, 170, 44, 241, 69, 93, 204, 41, 98, 185, 71, 205, 212, 234, 80, 250, 171, 44, 10, 171, 10, 72, 19>>
    [] c = <<255, 255, 255, 0, 0, 255>> ->
      <<210, 58, 38, 121, 61, 8, 99, 38, 154, 50, 166, 190, 36, 249, 229, 76, 10, 184, 228, 96, 208, 169, 147, 247, 223, 167, 139, 167, 119, 241, 129, 210>>
    [] c = <<255, 255, 255, 0, 1, 0>> ->
      <<226, 136, 239, 53, 50, 115, 219, 112, 206, 105, 222, 81, 206, 53, 19, 64, 155, 103, 36, 76, 202, 220, 10, 98, 148, 225, 52, 189, 96, 168, 37, 224>>
    [] c = <<255, 255, 255, 0, 1, 1>> ->
      <<55, 187, 29, 205, 105, 222, 47, 233, 207, 249, 214, 88, 48, 104, 33, 238, 192, 126, 227, 252, 90, 53, 64, 45, 126, 41, 117, 11, 145, 124, 151, 189>>
    [] c = <<255, 255, 255, 0, 1, 255>> ->
      <<216, 119, 210, 167, 92, 74, 240, 178, 211, 193, 118, 189, 171, 65, 126, 229, 161, 164, 84, 226, 11, 10, 18, 214, 169, 250, 186, 250, 32, 175, 159, 205>>
    [] c = <<255, 255, 255, 0, 255, 0>> ->
      <<226, 140, 215, 53, 198, 198, 25, 224, 91, 195, 175, 75, 242, 45, 17, 199, 80, 20, 10, 50, 236, 156, 105, 140, 143, 135, 244, 242, 208, 156, 57, 214>>
    [] c = <<255, 255, 255, 0, 255, 1>> ->
      <<180, 42, 94, 42, 243, 12, 78, 136, 175, 224, 93, 231, 22, 39, 148, 105, 112, 184, 0, 121, 245, 147, 9, 151, 182, 171, 73, 131, 87, 117, 73, 14>>
    [] c = <<255, 255, 255, 0, 255, 255>> ->
      <<132, 178, 178, 46, 83, 85, 197, 176, 237, 253, 24, 19, 31, 36, 132, 26, 197, 36, 135, 95, 216, 64, 29, 53, 84, 219, 202, 75, 201, 180, 159, 128>>
    [] c = <<255, 255, 255, 1, 0, 0>> ->
      <<94, 46, 225, 192, 10, 185, 55, 134, 127, 194, 228, 180, 250, 157, 158, 238, 187, 57, 157, 90, 3, 146, 223, 220, 114, 231, 235, 78, 84, 92, 99, 229>>
    [] c = <<255, 255, 255, 1, 0, 1>> ->
      <<34, 177, 48, 144, 171, 122, 4, 203, 145, 156, 132, 250, 179, 214, 11, 111, 99, 64, 206, 2, 113, 61, 205, 158, 64, 78, 51, 59, 87, 24, 108, 25>>
    [] c = <<255, 255, 255, 1, 0, 255>> ->
      <<103, 53, 102, 211, 254, 147, 207, 247, 40, 36, 226, 75, 116, 24, 60, 154, 37, 5, 40, 143, 127, 239, 22, 17, 157, 73, 240, 2, 223, 49, 4, 141>>
    [] c = <<255, 255, 255, 1, 1, 0>> ->
      <<255, 102, 213, 84, 218, 132, 158, 202, 40, 83, 215, 41, 71, 118, 13, 127, 42, 156, 58, 199, 30, 116, 87, 51, 42, 39, 245, 48, 248, 200, 111, 169>>
    [] c = <<255, 255, 255, 1, 1, 1>> ->
      <<38, 228, 110, 138, 197, 133, 58, 209, 236, 255, 60, 10, 191, 229, 122, 45, 251, 218, 200, 216, 220, 92, 195, 46, 21, 55, 189, 26, 188, 134, 149, 142>>
    [] c = <<255, 255, 255, 1, 1, 255>> ->
      <<9, 167, 246, 82, 48, 64, 57, 66, 23, 35, 81, 203, 218, 168, 110, 110, 16, 150, 83, 196, 196, 236, 64, 8, 37, 174, 64, 78, 187, 194, 141, 41>>
    [] c = <<255, 255, 255, 1, 255, 0>> ->
      <<16, 200, 69, 58, 199, 19, 114, 18, 246, 102, 168, 222, 27, 25, 201, 92, 243, 125, 55, 93, 187, 203, 101, 127, 104, 89, 157, 54, 13, 145, 210, 200>>
    [] c = <<255, 255, 255, 1, 255, 1>> ->
      <<54, 209, 70, 16, 172, 123, 130, 152, 128, 73, 119, 18, 168, 233, 204, 223, 119, 0, 234, 224, 41, 43, 240, 253, 162, 212, 225, 158, 73, 135, 69, 193>>
    [] c = <<255, 255, 255, 1, 255, 255>> ->
      <<106, 18, 175, 84, 47, 35, 190, 109, 42, 145, 255, 27, 32, 31, 239, 119, 146, 77, 3, 139, 90, 115, 106, 109, 162, 32, 146, 240, 246, 213, 162, 150>>
    [] c = <<255, 255, 255, 255, 0, 0>> ->
      <<135, 199, 189, 78, 89, 203, 167, 48, 98, 21, 100, 162, 65, 229, 203, 218, 160, 26, 85, 245, 198, 91, 185, 148, 208, 224, 78, 41, 242, 211, 174, 168>>
    [] c = <<255, 255, 255, 255, 0, 1>> ->
      <<146, 27, 174, 200, 157, 172, 32, 64, 115, 76, 218, 112, 15, 70, 72, 92, 160, 102, 185, 185, 192, 37, 16, 221, 207, 92, 44, 127, 193, 3, 175, 54>>
    [] c = <<255, 255, 255, 255, 0, 255>> ->
      <<169, 182, 74, 105, 54, 56, 158, 137, 203, 47, 185, 112, 84, 74, 233, 121, 163, 14, 175, 246, 44, 242, 151, 104, 55, 72, 105, 250, 22, 203, 247, 69>>
    [] c = <<255, 255, 255, 255, 1, 0>> ->
      <<174, 79, 83, 47, 119, 135, 121, 43, 22, 241, 173, 249, 22, 34, 85, 26, 1, 122, 45, 133, 159, 37, 93, 91, 209, 27, 161, 6, 192, 85, 149, 215>>
    [] c = <<255, 255, 255, 255, 1, 1>> ->
      <<221, 28, 206, 150, 68, 39, 150, 68, 64, 201, 152, 66, 240, 11, 46, 121, 0, 95, 112, 247, 254, 125, 229, 142, 76, 162, 127, 112, 229, 26, 100, 184>>
    [] c = <<255, 255, 255, 255, 1, 255>> ->
      <<68, 41, 180, 122, 174, 59, 20, 40, 24, 212, 40, 49, 27, 108, 52, 21, 25, 161, 22, 247, 135, 121, 244, 54, 122, 105, 232, 130, 243, 230, 176, 252>>
    [] c = <<255, 255, 255, 255, 255, 0>> ->
      <<141, 174, 26, 165, 185, 214, 48, 18, 233, 12, 46, 43, 115, 141, 83, 232, 174, 31, 119, 232, 228, 226, 240, 144, 30, 254, 53, 63, 248, 159, 190, 72>>
    [] c = <<255, 255, 255, 255, 255, 1>> ->
      <<232, 216, 250, 150, 132, 99, 84, 134, 89, 90, 97, 154, 33, 88, 62, 108, 227, 207, 241, 39, 23, 158, 229, 55, 33, 83, 20, 217, 252, 60, 159, 206>>
    [] c = <<255, 255, 255, 255, 255, 255>> ->
      <<206, 139, 238, 82, 93, 103, 54, 233, 130, 82, 97, 177, 154, 155, 81, 113, 159, 157, 196, 187, 114, 142, 149, 207, 112, 103, 162, 20, 43, 3, 179, 98>>
    [] c = <<0, 0, 0, 0, 0, 0, 0, 0, 0, 0, 0, 0, 0, 0, 0, 0, 0, 0, 0, 0, 0, 0, 0, 0, 0, 0, 0, 0, 0, 0, 0, 0, 0, 0, 0, 0, 0, 0, 0, 0, 0, 0, 0, 0, 0, 0, 0, 0, 0, 0, 0, 0, 0, 0, 0, 0, 0, 0, 0, 0, 0, 0>> ->
      <<30, 187, 43, 220, 92, 224, 142, 110, 144, 179, 237, 231, 42, 142, 243, 21, 227, 225, 188, 237, 58, 60, 69, 143, 105, 182, 215, 238, 255, 158, 79, 58>>
    [] c = <<0, 0, 0, 0, 0, 0, 0, 0, 0, 0, 0, 0, 0, 0, 0, 0, 0, 0, 0, 0, 0, 0, 0, 0, 0, 0, 0, 0, 0, 0, 0, 0, 0, 0, 0, 0, 0, 0, 0, 0, 0, 0, 0, 0, 0, 0, 0, 0, 0, 0, 0, 0, 0, 0, 0, 0, 0, 0, 0, 0, 0, 0, 0>> ->
      <<199, 114, 63, 161, 224, 18, 121, 117, 228, 158, 98, 231, 83, 219, 83, 146, 76, 27, 216, 75, 138, 193, 172, 8, 223, 120, 208, 146, 112, 243, 217, 113>>
    [] c = <<0, 0, 0, 0, 0, 0, 0, 0, 0, 0, 0, 0, 0, 0, 0, 0, 0, 0, 0, 0, 0, 0, 0, 0, 0, 0, 0, 0, 0, 0, 0, 0, 0, 0, 0, 0, 0, 0, 0, 0, 0, 0, 0, 0, 0, 0, 0, 0, 0, 0, 0, 0, 0, 0, 0, 0, 0, 0, 0, 0, 0, 0, 0, 200, 0, 0, 0, 0, 227, 176, 196, 66, 152, 252, 28, 20, 154, 251, 244, 200, 153, 111, 185, 36, 39, 174, 65, 228, 100, 155, 147, 76, 164, 149, 153, 27, 120, 82, 184, 85, 0, 0, 0, 0, 0, 0, 0, 1, 170, 170, 170, 170, 170, 170, 170, 170, 170, 170, 170, 170, 170, 170, 170, 161>> ->
      <<108, 113, 253, 228, 246, 13, 197, 125, 51, 140, 101, 217, 207, 26, 107, 142, 135, 189, 108, 208, 128, 7, 205, 252, 156, 149, 95, 96, 221, 56, 100, 137>>
    [] c = <<0, 0, 200, 0, 0, 0, 0, 227, 176, 196, 66, 152, 252, 28, 20, 154, 251, 244, 200, 153, 111, 185, 36, 39, 174, 65, 228, 100, 155, 147, 76, 164, 149, 153, 27, 120, 82, 184, 85, 0, 0, 0, 0, 0, 0, 0, 1, 170, 170, 170, 170, 170, 170, 170, 170, 170, 170, 170, 170, 170, 170, 170>> ->
      <<149, 104, 32, 126, 13, 82, 173, 16, 55, 132, 135, 20, 157, 183, 37, 91, 199, 117, 82, 35, 46, 231, 190, 118, 193, 150, 25, 137, 192, 62, 38, 78>>
    [] c = <<0, 0, 200, 0, 0, 0, 63, 199, 114, 63, 161, 224, 18, 121, 117, 228, 158, 98, 231, 83, 219, 83, 146, 76, 27, 216, 75, 138, 193, 172, 8, 223, 120, 208, 146, 112, 243, 217, 113, 0, 0, 0, 0, 0, 0, 0, 1, 170, 170, 170, 170, 170, 170, 170, 170, 170, 170, 170, 170, 170, 170, 170>> ->
      <<219, 159, 113, 140, 131, 61, 115, 242, 171, 112, 31, 152, 93, 131, 220, 71, 143, 241, 125, 64, 212, 161, 27, 121, 169, 88, 222, 97, 218, 197, 249, 187>>
    [] c = <<0, 0, 200, 0, 0, 0, 124, 108, 113, 253, 228, 246, 13, 197, 125, 51, 140, 101, 217, 207, 26, 107, 142, 135, 189, 108, 208, 128, 7, 205, 252, 156, 149, 95, 96, 221, 56, 100, 137, 0, 0, 0, 0, 0, 0, 0, 1, 170, 170, 170, 170, 170, 170, 170, 170, 170, 170, 170, 170, 170, 170, 170>> ->
      <<172, 95, 134, 255, 0, 46, 85, 239, 64, 255, 218, 148, 19, 90, 112, 244, 56, 172, 66, 242, 18, 15, 151, 7, 104, 75, 105, 216, 26, 118, 160, 191>>
    [] c = <<0, 200, 0, 0, 0, 0, 227, 176, 196, 66, 152, 252, 28, 20, 154, 251, 244, 200, 153, 111, 185, 36, 39, 174, 65, 228, 100, 155, 147, 76, 164, 149, 153, 27, 120, 82, 184, 85, 0, 0, 0, 0, 0, 0, 0, 1, 170, 170, 170, 170, 170, 170, 170, 170, 170, 170, 170, 170, 170, 170, 170, 161>> ->
      <<91, 211, 213, 49, 172, 39, 104, 115, 68, 78, 90, 180, 129, 94, 189, 255, 63, 229, 178, 2, 70, 162, 128, 206, 233, 105, 31, 180, 100, 219, 170, 153>>
    [] c = <<0, 200, 0, 0, 0, 63, 199, 114, 63, 161, 224, 18, 121, 117, 228, 158, 98, 231, 83, 219, 83, 146, 76, 27, 216, 75, 138, 193, 172, 8, 223, 120, 208, 146, 112, 243, 217, 113, 0, 0, 0, 0, 0, 0, 0, 1, 170, 170, 170, 170, 170, 170, 170, 170, 170, 170, 170, 170, 170, 170, 170, 161>> ->
      <<230, 7, 175, 108, 86, 68, 79, 158, 122, 95, 227, 130, 15, 10, 165, 82, 50, 11, 40, 104, 196, 187, 16, 1, 206, 124, 53, 111, 239, 207, 169, 178>>
    [] c = <<0, 200, 0, 0, 0, 124, 108, 113, 253, 228, 246, 13, 197, 125, 51, 140, 101, 217, 207, 26, 107, 142, 135, 189, 108, 208, 128, 7, 205, 252, 156, 149, 95, 96, 221, 56, 100, 137, 0, 0, 0, 0, 0, 0, 0, 1, 170, 170, 170, 170, 170, 170, 170, 170, 170, 170, 170, 170, 170, 170, 170, 161>> ->
      <<169, 115, 191, 218, 59, 61, 211, 8, 6, 136, 68, 69, 214, 121, 151, 85, 10, 35, 46, 246, 147, 236, 214, 0, 104, 11, 51, 33, 139, 211, 126, 188>>
    [] c = <<161>> ->
      <<138, 137, 80, 247, 98, 54, 99, 34, 37, 66, 201, 70, 156, 115, 190, 60, 76, 129, 187, 223, 1, 158, 44, 87, 117, 144, 166, 31, 44, 233, 161, 87>>
    [] c = <<161, 0, 0, 0, 0, 0, 0, 0, 0, 0, 0, 0, 0, 0, 0, 0, 0, 0, 0, 0, 0, 0, 0, 0, 0, 0, 0, 0, 0, 0, 0, 0, 0, 0, 0, 0, 0, 0, 0, 0, 0, 0, 0, 0, 0, 0, 0, 0, 0, 0, 0, 0, 0, 0, 0, 0, 0, 0, 0, 0, 0, 0>> ->
      <<59, 246, 4, 206, 238, 58, 167, 183, 19, 250, 26, 140, 146, 115, 15, 164, 50, 75, 19, 50, 25, 60, 116, 143, 161, 143, 186, 56, 58, 6, 152, 125>>
    [] c = <<161, 0, 200, 0, 0, 0, 0, 227, 176, 196, 66, 152, 252, 28, 20, 154, 251, 244, 200, 153, 111, 185, 36, 39, 174, 65, 228, 100, 155, 147, 76, 164, 149, 153, 27, 120, 82, 184, 85, 0, 0, 0, 0, 0, 0, 0, 1, 170, 170, 170, 170, 170, 170, 170, 170, 170, 170, 170, 170, 170, 170, 170>> ->
      <<57, 136, 10, 116, 237, 69, 37, 143, 92, 136, 56, 209, 64, 184, 6, 160, 68, 205, 147, 99, 0, 189, 190, 76, 165, 212, 124, 255, 91, 43, 154, 147>>
    [] c = <<161, 0, 200, 0, 0, 0, 63, 199, 114, 63, 161, 224, 18, 121, 117, 228, 158, 98, 231, 83, 219, 83, 146, 76, 27, 216, 75, 138, 193, 172, 8, 223, 120, 208, 146, 112, 243, 217, 113, 0, 0, 0, 0, 0, 0, 0, 1, 170, 170, 170, 170, 170, 170, 170, 170, 170, 170, 170, 170, 170, 170, 170>> ->
      <<180, 252, 211, 123, 160, 169, 254, 109, 9, 109, 111, 73, 58, 49, 167, 174, 67, 52, 55, 10, 232, 14, 12, 98, 33, 135, 169, 166, 83, 237, 119, 165>>
    [] c = <<161, 0, 200, 0, 0, 0, 124, 108, 113, 253, 228, 246, 13, 197, 125, 51, 140, 101, 217, 207, 26, 107, 142, 135, 189, 108, 208, 128, 7, 205, 252, 156, 149, 95, 96, 221, 56, 100, 137, 0, 0, 0, 0, 0, 0, 0, 1, 170, 170, 170, 170, 170, 170, 170, 170, 170, 170, 170, 170, 170, 170, 170>> ->
      <<175, 244, 220, 54, 147, 163, 150, 158, 99, 65, 38, 176, 123, 211, 30, 91, 96, 203, 220, 130, 233, 12, 200, 218, 82, 45, 78, 97, 221, 163, 110, 162>>
    [] c = <<170, 161>> ->
      <<245, 130, 186, 126, 147, 130, 84, 25, 173, 227, 213, 98, 115, 249, 30, 249, 148, 147, 186, 253, 202, 23, 56, 51, 98, 91, 126, 36, 38, 156, 248, 94>>
    [] c = <<170, 161, 0, 0, 0, 0, 0, 0, 0, 0, 0, 0, 0, 0, 0, 0, 0, 0, 0, 0, 0, 0, 0, 0, 0, 0, 0, 0, 0, 0, 0, 0, 0, 0, 0, 0, 0, 0, 0, 0, 0, 0, 0, 0, 0, 0, 0, 0, 0, 0, 0, 0, 0, 0, 0, 0, 0, 0, 0, 0, 0, 0>> ->
      <<169, 54, 106, 240, 107, 30, 120, 12, 253, 246, 31, 75, 173, 147, 190, 162, 17, 92, 88, 175, 196, 56, 116, 112, 185, 243, 254, 104, 70, 39, 243, 8>>

\* raise RequestError(message)
RequestError(message) == [error |-> message]
IsError(r) == "error" \in DOMAIN r
IsResponse(r) == "request_id" \in DOMAIN r

\* Request.compile, lines 164-218, at the clock reading timestamp_ms:
\* header (code, size, digest, timestamp, id) followed by the content.
\* `size > 2**32 - 1` is written with a quotient to stay in machine integers.
compile(request, timestamp_ms) ==
  LET size == Len(request.content)
      hash_value == Sha256(request.content)
      request_id_bytes == CompileId(request.request_id)
      header == BigEndian(request.type, 2) \o BigEndian(size, 4) \o hash_value
                  \o BigEndian(timestamp_ms, 8) \o request_id_bytes
  IN  IF size \div 65536 >= 65536
      THEN RequestError("Content too large")
      ELSE header \o request.content

\* MessageTypeRegistry.get with a fallback to the first system type for a
\* code that is not registered.
getDefault(code) == IF code \in DOMAIN registry THEN registry[code] ELSE registry[PING]

\* MessageTypeRegistry.get, types.py lines 38-49: dict.get(code)
get(code) == IF code \in DOMAIN registry THEN registry[code] ELSE None

\* Request.parse without the integrity check of lines 128-134.
parseNoHash(data, received_at) ==
  IF Len(data) < HeaderSize
  THEN RequestError("Data too short")
  ELSE LET header == SubSeq(data, 1, HeaderSize)
           content == SubSeq(data, HeaderSize + 1, Len(data))
           code == FromBigEndian(SubSeq(header, 1, 2))
           size == FromBigEndian(SubSeq(header, 3, 6))
           hash_received == SubSeq(header, 7, 38)
           timestamp_ms == FromBigEndian(SubSeq(header, 39, 46))
           request_id_bytes == SubSeq(header, 47, 62)
           request_id == ParseId(request_id_bytes)
           msg_type == get(code)
       IN  IF Len(content) # size
           THEN RequestError("Size mismatch")
           ELSE IF msg_type = None
           THEN RequestError("Unknown message type code")
           ELSE [type |-> msg_type, content |-> content, timestamp |-> timestamp_ms,
                 hash |-> hash_received, received_at |-> received_at,
                 request_id |-> request_id]

\* Request.parse, lines 81-162, at the clock reading received_at: the
\* Response, or the RequestError of the first check that fails.
parse(data, received_at) ==
  IF Len(data) < HeaderSize
  THEN RequestError("Data too short")
  ELSE LET header == SubSeq(data, 1, HeaderSize)
           content == SubSeq(data, HeaderSize + 1, Len(data))
           code == FromBigEndian(SubSeq(header, 1, 2))
           size == FromBigEndian(SubSeq(header, 3, 6))
           hash_received == SubSeq(header, 7, 38)
           timestamp_ms == FromBigEndian(SubSeq(header, 39, 46))
           request_id_bytes == SubSeq(header, 47, 62)
           request_id == ParseId(request_id_bytes)
           hash_content == Sha256(content)
           msg_type == get(code)
       IN  IF hash_received # hash_content
           THEN RequestError("Hash mismatch - corrupted data detected")
           ELSE IF Len(content) # size
           THEN RequestError("Size mismatch")
           ELSE IF msg_type = None
           THEN RequestError("Unknown message type code")
           ELSE [type |-> msg_type, content |-> content, timestamp |-> timestamp_ms,
                 hash |-> hash_received, received_at |-> received_at,
                 request_id |-> request_id]

\* The requests handed to compile: every registered type, every content of
\* at most MaxPayload bytes, and ids in the four forms a caller can write:
\* as uuid4 gives it, in upper case without hyphens, in lower case without
\* hyphens, and a string that is no UUID.
Contents(n) == UNION {[1..k -> ByteVals] : k \in 0..n}
CodecIds == {IdA, IdAUpper, HexA, ReqOne}

otherVarsOfCodec == <<callerVars, netVars, handlerVars, callbacks, clientVars, acceptVars,
                      closeVars, logVars, frameVars, side, raising, dcalls, shutVars, regVars,
                      laterVars, lastVars>>

\* Request(_type, content, request_id), request.py lines 56-59
K_Request(t, content, request_id) ==
  /\ creq = None
  /\ creq' = Request(t, content, request_id)
  /\ UNCHANGED <<cts, cdata, cout, tamper, otherVarsOfCodec>>

\* request.compile() at the clock reading now
K_Compile(now) ==
  /\ creq # None
  /\ tamper = "off"
  /\ cts' = now
  /\ cdata' = compile(creq, now)
  /\ tamper' = "none"
  /\ UNCHANGED <<creq, cout, otherVarsOfCodec>>

\* The frame is changed on its way: byte i of the content becomes b
\* (test_comprehensive.py lines 220-222)
K_Corrupt(i, b) ==
  /\ tamper = "none"
  /\ cout = None
  /\ i \in 1..Len(creq.content)
  /\ b # cdata[HeaderSize + i]
  /\ cdata' = [cdata EXCEPT ![HeaderSize + i] = b]
  /\ tamper' = "payload"
  /\ UNCHANGED <<creq, cts, cout, otherVarsOfCodec>>

\* bytes are appended to the frame (test_comprehensive.py line 235)
K_Append(extra) ==
  /\ tamper = "none"
  /\ cout = None
  /\ cdata' = cdata \o extra
  /\ tamper' = "extra"
  /\ UNCHANGED <<creq, cts, cout, otherVarsOfCodec>>

\* the type code is replaced by a code nobody registered
\* (test_comprehensive.py lines 250-253)
K_Retype(code) ==
  /\ tamper = "none"
  /\ cout = None
  /\ code \notin DOMAIN registry
  /\ cdata' = BigEndian(code, 2) \o SubSeq(cdata, 3, Len(cdata))
  /\ tamper' = "type"
  /\ UNCHANGED <<creq, cts, cout, otherVarsOfCodec>>

\* only the first n bytes of the frame arrive
K_Truncate(n) ==
  /\ tamper = "none"
  /\ cout = None
  /\ n < HeaderSize
  /\ cdata' = SubSeq(cdata, 1, n)
  /\ tamper' = "short"
  /\ UNCHANGED <<creq, cts, cout, otherVarsOfCodec>>

\* Request.parse(data) at the clock reading now; cout is the Response or
\* the RequestError
K_Parse(now) ==
  /\ tamper # "off"
  /\ cout = None
  /\ cout' = parse(cdata, now)
  /\ UNCHANGED <<creq, cts, cdata, tamper, otherVarsOfCodec>>

\* Sender.send, sender.py lines 69-90: the results a send to connection p
\* can give.  sendall on a socket that is not connected raises, and send
\* returns False; when the remote end has closed, sendall may still succeed.
SendResults(p) ==
  IF sock[p] # "open" THEN {FALSE} ELSE IF peer_open[p] THEN {TRUE} ELSE {TRUE, FALSE}

\* What a send that returned `sent` leaves on connection p.
Written(p, frame, sent) ==
  IF sent /\ peer_open[p] THEN [to_peer EXCEPT ![p] = Append(@, frame)] ELSE to_peer

\* The calls in flight whose timeout has not expired.
Waiting(c) == pc[c] \in {"registered", "waiting", "got"}
Expired(c) == pc[c] \in {"empty", "done_timeout"}
Returned(c) == pc[c] \in {"done_response", "done_timeout", "done_sendfail"}

\* C_Register keeping the Queue under the id as parse renders it.
C_RegisterCanonical(c, request_id) ==
  /\ side = "client"
  /\ pc[c] = "idle"
  /\ queue' = [queue EXCEPT ![c] = <<>>]
  /\ pending_requests' = SetKey(pending_requests, ParseId(CompileId(request_id)), c)
  /\ req' = [req EXCEPT ![c] = CallerRequest(c, request_id)]
  /\ target' = [target EXCEPT ![c] = 1]
  /\ pc' = [pc EXCEPT ![c] = "registered"]
  /\ UNCHANGED <<result, netVars, handlerVars, callbacks, clientVars, acceptVars,
                 closeVars, logVars, frameVars, side, extVars>>

\* ------------------------------------------------- Client.send_and_wait
\* lines 133-134: create the Queue and register it under request.request_id
C_Register(c, request_id) ==
  /\ side = "client"
  /\ pc[c] = "idle"
  /\ queue' = [queue EXCEPT ![c] = <<>>]
  /\ pending_requests' = SetKey(pending_requests, request_id, c)
  /\ req' = [req EXCEPT ![c] = CallerRequest(c, request_id)]
  /\ target' = [target EXCEPT ![c] = 1]
  /\ pc' = [pc EXCEPT ![c] = "registered"]
  /\ UNCHANGED <<result, netVars, handlerVars, callbacks, clientVars, acceptVars,
                 closeVars, logVars, frameVars, side, extVars>>

\* lines 139-142: self.sender.send(request); when it fails,
\* del self._pending_requests[request.request_id] and return None.  del
\* raises KeyError when the key is gone.
C_Send(c) ==
  /\ side = "client"
  /\ pc[c] = "registered"
  /\ \E sent \in SendResults(1) :
       /\ to_peer' = Written(1, Compile(req[c], c), sent)
       /\ IF sent
          THEN /\ pc' = [pc EXCEPT ![c] = "waiting"]
               /\ UNCHANGED pending_requests
          ELSE IF req[c].request_id \in DOMAIN pending_requests
          THEN /\ pending_requests' = DelKey(pending_requests, req[c].request_id)
               /\ pc' = [pc EXCEPT ![c] = "done_sendfail"]
          ELSE /\ pc' = [pc EXCEPT ![c] = "raised"]
               /\ UNCHANGED pending_requests
  /\ UNCHANGED <<queue, req, target, result, from_peer, sock, peer_open, handlerVars, callbacks,
                 clientVars, acceptVars, closeVars, logVars, frameVars, side, extVars>>

\* line 146: response_queue.get(timeout=timeout) returns an item
C_Get(c) ==
  /\ side = "client"
  /\ pc[c] = "waiting"
  /\ queue[c] # <<>>
  /\ result' = [result EXCEPT ![c] = Head(queue[c])]
  /\ queue' = [queue EXCEPT ![c] = Tail(@)]
  /\ pc' = [pc EXCEPT ![c] = "got"]
  /\ UNCHANGED <<pending_requests, req, target, netVars, handlerVars, callbacks, clientVars,
                 acceptVars, closeVars, logVars, frameVars, side, extVars>>

\* C_Empty with an except clause that lets the exception out of the call.
C_EmptyRaises(c) ==
  /\ side = "client"
  /\ pc[c] = "waiting"
  /\ queue[c] = <<>>
  /\ pending_requests' = DelKey(pending_requests, req[c].request_id)
  /\ pc' = [pc EXCEPT ![c] = "raised"]
  /\ UNCHANGED <<queue, req, target, result, netVars, handlerVars, callbacks,
                 clientVars, acceptVars, closeVars, logVars, frameVars, side, extVars>>

\* lines 146, 149: the timeout ends with the Queue empty, get raises Empty
C_Empty(c) ==
  /\ side = "client"
  /\ pc[c] = "waiting"
  /\ queue[c] = <<>>
  /\ pc' = [pc EXCEPT ![c] = "empty"]
  /\ UNCHANGED <<pending_requests, queue, req, target, result, netVars, handlerVars, callbacks,
                 clientVars, acceptVars, closeVars, logVars, frameVars, side, extVars>>

\* C_Finally without the pop of the finally clause.
C_FinallyNoPop(c) ==
  /\ side = "client"
  /\ pc[c] \in {"got", "empty"}
  /\ pc' = [pc EXCEPT ![c] = IF pc[c] = "got" THEN "done_response" ELSE "done_timeout"]
  /\ UNCHANGED <<pending_requests, queue, req, target, result, netVars, handlerVars, callbacks,
                 clientVars, acceptVars, closeVars, logVars, frameVars, side, extVars>>

\* lines 152-154: finally: self._pending_requests.pop(request.request_id, None),
\* then the return of line 148 or 151
C_Finally(c) ==
  /\ side = "client"
  /\ pc[c] \in {"got", "empty"}
  /\ pending_requests' = DelKey(pending_requests, req[c].request_id)
  /\ pc' = [pc EXCEPT ![c] = IF pc[c] = "got" THEN "done_response" ELSE "done_timeout"]
  /\ UNCHANGED <<queue, req, target, result, netVars, handlerVars, callbacks, clientVars,
                 acceptVars, closeVars, logVars, frameVars, side, extVars>>

\* --------------------------------------------------------- receive loops
\* A frame read by a handler is late when it answers a call whose timeout
\* has expired and no call still in flight waits under the same id.
IsLate(response) ==
  /\ response.type # PING
  /\ \E c \in Callers :
       /\ Expired(c)
       /\ response.re = c
       /\ response.request_id = req[c].request_id
       /\ \A d \in Callers : Waiting(d) => req[d].request_id # response.request_id

\* utils/network.recv returns None: the local socket is closed (recv raises),
\* the remote end has closed and everything it wrote has been read, or the
\* socket has a timeout and nothing arrived within it (lines 30-33).
RecvNone(p) ==
  \/ sock[p] # "open"
  \/ ~peer_open[p] /\ from_peer[p] = <<>>
  \/ conn_timeout /\ from_peer[p] = <<>>

\* RecvFrame with the parse outside the try block: the exception ends the
\* handler thread.
RecvFrameFatal(p, next) ==
  /\ sock[p] = "open"
  /\ from_peer[p] # <<>>
  /\ LET frame == Head(from_peer[p])
     IN  /\ from_peer' = [from_peer EXCEPT ![p] = Tail(@)]
         /\ IF frame.ok
            THEN /\ hmsg' = [hmsg EXCEPT ![p] = Parse(frame)]
                 /\ hpc' = [hpc EXCEPT ![p] = "parsed"]
                 /\ late' = IF IsLate(Parse(frame)) THEN late \cup {frame.serial} ELSE late
                 /\ UNCHANGED fate
            ELSE /\ fate' = [fate EXCEPT ![frame.serial] = "unparsable"]
                 /\ hpc' = [hpc EXCEPT ![p] = "exit"]
                 /\ UNCHANGED <<hmsg, late>>

\* RecvFrame reading the frame that arrived last instead of the one that
\* arrived first.
RecvFrameNewestFirst(p, next) ==
  /\ sock[p] = "open"
  /\ from_peer[p] # <<>>
  /\ LET frame == from_peer[p][Len(from_peer[p])]
     IN  /\ from_peer' = [from_peer EXCEPT ![p] = SubSeq(@, 1, Len(@) - 1)]
         /\ IF frame.ok
            THEN /\ hmsg' = [hmsg EXCEPT ![p] = Parse(frame)]
                 /\ hpc' = [hpc EXCEPT ![p] = "parsed"]
                 /\ late' = IF IsLate(Parse(frame)) THEN late \cup {frame.serial} ELSE late
                 /\ UNCHANGED fate
            ELSE /\ fate' = [fate EXCEPT ![frame.serial] = "unparsable"]
                 /\ hpc' = [hpc EXCEPT ![p] = next]
                 /\ UNCHANGED <<hmsg, late>>

\* utils/network.recv returns the next frame, and Request.parse accepts it
\* or raises; the except clause of the handler logs and the loop goes on.
RecvFrame(p, next) ==
  /\ sock[p] = "open"
  /\ from_peer[p] # <<>>
  /\ LET frame == Head(from_peer[p])
     IN  /\ from_peer' = [from_peer EXCEPT ![p] = Tail(@)]
         /\ IF frame.ok
            THEN /\ hmsg' = [hmsg EXCEPT ![p] = Parse(frame)]
                 /\ hpc' = [hpc EXCEPT ![p] = "parsed"]
                 /\ late' = IF IsLate(Parse(frame)) THEN late \cup {frame.serial} ELSE late
                 /\ UNCHANGED fate
            ELSE /\ fate' = [fate EXCEPT ![frame.serial] = "unparsable"]
                 /\ hpc' = [hpc EXCEPT ![p] = next]
                 /\ UNCHANGED <<hmsg, late>>

\* How the call of a callback ends, client.py lines 210-216, server.py lines
\* 296-304: there is none, it returns, or it raises and the except clause at
\* the call site logs the error.
CallbackFate(name) ==
  IF name \notin callbacks THEN "nocallback"
  ELSE IF name \in raising THEN "raised" ELSE "callback"

\* Client.handle_client line 186: `while self.running`, read as an iteration ends
C_Loop == IF running THEN "recv" ELSE "exit"

\* lines 187, 194-196: recv returned a frame; parse it
C_HandlerRecv ==
  /\ side = "client"
  /\ hpc[1] = "recv"
  /\ RecvFrame(1, C_Loop)
  /\ UNCHANGED <<callerVars, to_peer, sock, peer_open, hq, callbacks, clientVars,
                 acceptVars, closeVars, logVars, sent_frames, side, extVars>>

\* disconnect without the test of line 238: the handler thread joins itself,
\* Thread.join raises RuntimeError and the except clause returns False.
disconnectJoinsSelf(x) ==
  /\ running' = FALSE
  /\ sock' = [sock EXCEPT ![1] = "closed"]
  /\ is_connected' = FALSE
  /\ cpc' = [cpc EXCEPT ![x] = "done"]
  /\ cres' = [cres EXCEPT ![x] = ~(x = HandlerCtx(1))]

\* Client.disconnect, lines 228-244: self.running = False; self.socket.close();
\* self.is_connected = False; join the handler unless this is the handler
\* thread; return True.  cpc marks the context as having returned from a call.
disconnect(x) ==
  /\ running' = FALSE
  /\ sock' = [sock EXCEPT ![1] = "closed"]
  /\ is_connected' = FALSE
  /\ cpc' = [cpc EXCEPT ![x] = "done"]
  /\ cres' = [cres EXCEPT ![x] = TRUE]

\* lines 189-192: recv returned None; self.disconnect(); break
C_HandlerRecvNone ==
  /\ side = "client"
  /\ hpc[1] = "recv"
  /\ RecvNone(1)
  /\ disconnect(HandlerCtx(1))
  /\ hpc' = [hpc EXCEPT ![1] = "exit"]
  /\ UNCHANGED <<callerVars, to_peer, from_peer, peer_open, hmsg, hq, callbacks,
                 acceptVars, ctarget, cwas_in, logVars, frameVars, side, extVars>>

\* C_HandlerPing answering with Request(PONG, b""), whose request_id is a
\* fresh one.
C_HandlerPingFreshId ==
  /\ side = "client"
  /\ hpc[1] = "parsed"
  /\ hmsg[1].type = PING
  /\ \E sent \in SendResults(1) :
       to_peer' = Written(1, Compile(Request(PONG, <<>>, IdB), 0), sent)
  /\ fate' = [fate EXCEPT ![hmsg[1].serial] = "pong"]
  /\ hpc' = [hpc EXCEPT ![1] = C_Loop]
  /\ hmsg' = [hmsg EXCEPT ![1] = None]
  /\ UNCHANGED <<callerVars, from_peer, sock, peer_open, hq, callbacks, clientVars,
                 acceptVars, closeVars, logVars, sent_frames, late, side, extVars>>

\* C_HandlerPing without the interception: the PING goes to on_recv.
C_HandlerPingToCallback ==
  /\ side = "client"
  /\ hpc[1] = "parsed"
  /\ hmsg[1].type = PING
  /\ recv_log' = Append(recv_log, [client |-> 1, msg |-> hmsg[1]])
  /\ fate' = [fate EXCEPT ![hmsg[1].serial] = "callback"]
  /\ hpc' = [hpc EXCEPT ![1] = C_Loop]
  /\ hmsg' = [hmsg EXCEPT ![1] = None]
  /\ UNCHANGED <<callerVars, netVars, hq, callbacks, clientVars, acceptVars, closeVars,
                 conn_log, disc_log, sent_frames, late, side, extVars>>

\* lines 198-203: auto-respond to PING with a PONG of the same request_id
C_HandlerPing ==
  /\ side = "client"
  /\ hpc[1] = "parsed"
  /\ hmsg[1].type = PING
  /\ \E sent \in SendResults(1) :
       to_peer' = Written(1, Compile(Request(PONG, <<>>, hmsg[1].request_id), 0), sent)
  /\ fate' = [fate EXCEPT ![hmsg[1].serial] = "pong"]
  /\ hpc' = [hpc EXCEPT ![1] = C_Loop]
  /\ hmsg' = [hmsg EXCEPT ![1] = None]
  /\ UNCHANGED <<callerVars, from_peer, sock, peer_open, hq, callbacks, clientVars,
                 acceptVars, closeVars, logVars, sent_frames, late, side, extVars>>

\* C_HandlerCheck dropping a Response nobody waits for.
C_HandlerCheckDrops ==
  /\ side = "client"
  /\ hpc[1] = "parsed"
  /\ hmsg[1].type # PING
  /\ IF hmsg[1].request_id \in DOMAIN pending_requests
     THEN /\ hpc' = [hpc EXCEPT ![1] = "lookup"]
          /\ UNCHANGED <<hmsg, fate>>
     ELSE /\ fate' = [fate EXCEPT ![hmsg[1].serial] = "nocallback"]
          /\ hpc' = [hpc EXCEPT ![1] = C_Loop]
          /\ hmsg' = [hmsg EXCEPT ![1] = None]
  /\ UNCHANGED <<callerVars, netVars, hq, callbacks, clientVars, acceptVars, closeVars,
                 logVars, sent_frames, late, side, extVars>>

\* lines 206, 209-216: the test `request_id in self._pending_requests`; when
\* it fails the Response goes to on_recv, if one is set
C_HandlerCheck ==
  /\ side = "client"
  /\ hpc[1] = "parsed"
  /\ hmsg[1].type # PING
  /\ IF hmsg[1].request_id \in DOMAIN pending_requests
     THEN /\ hpc' = [hpc EXCEPT ![1] = "lookup"]
          /\ UNCHANGED <<hmsg, recv_log, fate>>
     ELSE /\ recv_log' = IF "on_recv" \in callbacks
                         THEN Append(recv_log, [client |-> 1, msg |-> hmsg[1]])
                         ELSE recv_log
          /\ fate' = [fate EXCEPT ![hmsg[1].serial] = CallbackFate("on_recv")]
          /\ hpc' = [hpc EXCEPT ![1] = C_Loop]
          /\ hmsg' = [hmsg EXCEPT ![1] = None]
  /\ UNCHANGED <<callerVars, netVars, hq, callbacks, clientVars, acceptVars, closeVars,
                 conn_log, disc_log, sent_frames, late, side, extVars>>

\* line 207, first half: self._pending_requests[response.request_id]; a
\* KeyError is caught by the except clause of line 218
C_HandlerLookup ==
  /\ side = "client"
  /\ hpc[1] = "lookup"
  /\ IF hmsg[1].request_id \in DOMAIN pending_requests
     THEN /\ hq' = [hq EXCEPT ![1] = pending_requests[hmsg[1].request_id]]
          /\ hpc' = [hpc EXCEPT ![1] = "put"]
          /\ UNCHANGED <<hmsg, fate>>
     ELSE /\ fate' = [fate EXCEPT ![hmsg[1].serial] = "keyerror"]
          /\ hpc' = [hpc EXCEPT ![1] = C_Loop]
          /\ hmsg' = [hmsg EXCEPT ![1] = None]
          /\ UNCHANGED hq
  /\ UNCHANGED <<callerVars, netVars, callbacks, clientVars, acceptVars, closeVars,
                 logVars, sent_frames, late, side, extVars>>

\* C_HandlerPut on a Queue made without maxsize.
C_HandlerPutUnbounded ==
  /\ side = "client"
  /\ hpc[1] = "put"
  /\ queue' = [queue EXCEPT ![hq[1]] = Append(@, hmsg[1])]
  /\ fate' = [fate EXCEPT ![hmsg[1].serial] = "queued"]
  /\ hpc' = [hpc EXCEPT ![1] = C_Loop]
  /\ hmsg' = [hmsg EXCEPT ![1] = None]
  /\ hq' = [hq EXCEPT ![1] = 0]
  /\ UNCHANGED <<pending_requests, pc, req, target, result, netVars, callbacks, clientVars,
                 acceptVars, closeVars, logVars, sent_frames, late, side, extVars>>

\* line 207, second half: Queue.put(response) blocks while the Queue is full
C_HandlerPut ==
  /\ side = "client"
  /\ hpc[1] = "put"
  /\ Len(queue[hq[1]]) < 1
  /\ queue' = [queue EXCEPT ![hq[1]] = Append(@, hmsg[1])]
  /\ fate' = [fate EXCEPT ![hmsg[1].serial] = "queued"]
  /\ hpc' = [hpc EXCEPT ![1] = C_Loop]
  /\ hmsg' = [hmsg EXCEPT ![1] = None]
  /\ hq' = [hq EXCEPT ![1] = 0]
  /\ UNCHANGED <<pending_requests, pc, req, target, result, netVars, callbacks, clientVars,
                 acceptVars, closeVars, logVars, sent_frames, late, side, extVars>>

\* ------------------------------------------ Client.connect, disconnect
\* lines 96-107: the connection is made and the handler thread started
C_Connect ==
  /\ side = "client"
  /\ sock[1] = "new"
  /\ connect_result = "none"
  /\ sock' = [sock EXCEPT ![1] = "open"]
  /\ peer_open' = [peer_open EXCEPT ![1] = TRUE]
  /\ is_connected' = TRUE
  /\ hpc' = [hpc EXCEPT ![1] = C_Loop]
  /\ connect_result' = "True"
  /\ UNCHANGED <<callerVars, to_peer, from_peer, hmsg, hq, callbacks, running,
                 acceptVars, closeVars, logVars, frameVars, side, raising, dcalls,
                 shutVars, regVars, codecVars, sndVars, pingVars, toVars, lastVars>>

\* connect with `self.is_connected = True` and the start of the handler
\* thread placed before socket.connect: a refused connection leaves both.
C_ConnectRefusedFlagged ==
  /\ side = "client"
  /\ sock[1] = "new"
  /\ connect_result = "none"
  /\ is_connected' = TRUE
  /\ hpc' = [hpc EXCEPT ![1] = C_Loop]
  /\ connect_result' = "False"
  /\ UNCHANGED <<callerVars, netVars, hmsg, hq, callbacks, running,
                 acceptVars, closeVars, logVars, frameVars, side, raising, dcalls,
                 shutVars, regVars, codecVars, sndVars, pingVars, toVars, lastVars>>

\* lines 96, 109-114: socket.connect raises ConnectionRefusedError,
\* socket.timeout or another exception; connect returns False.  A client
\* calls connect once.
C_ConnectRefused ==
  /\ side = "client"
  /\ sock[1] = "new"
  /\ connect_result = "none"
  /\ connect_result' = "False"
  /\ UNCHANGED <<callerVars, netVars, handlerVars, callbacks, clientVars,
                 acceptVars, closeVars, logVars, frameVars, side, raising, dcalls,
                 shutVars, regVars, codecVars, sndVars, pingVars, toVars, lastVars>>

\* line 221: a user thread calls disconnect(), at any time and again
C_Disconnect(x) ==
  /\ side = "client"
  /\ x \in Closers
  /\ dcalls < MaxDisconnects
  /\ dcalls' = dcalls + 1
  /\ disconnect(x)
  /\ UNCHANGED <<callerVars, to_peer, from_peer, peer_open, handlerVars, callbacks,
                 acceptVars, ctarget, cwas_in, logVars, frameVars, side, raising,
                 shutVars, regVars, codecVars, laterVars, lastVars>>

\* ------------------------------------------------- Server.send_and_wait
\* The ClientInfo objects user code can hold: those the accept loop has put
\* in self.clients at some time.
Known == {p \in Conns : p <= n_th /\ ~(apc = "append" /\ aconn = p)}

\* server.py lines 132-135: create the Queue and register it, under the lock
S_Register(c, request_id, p) ==
  /\ side = "server"
  /\ pc[c] = "idle"
  /\ p \in Known
  /\ queue' = [queue EXCEPT ![c] = <<>>]
  /\ pending_requests' = SetKey(pending_requests, request_id, c)
  /\ req' = [req EXCEPT ![c] = CallerRequest(c, request_id)]
  /\ target' = [target EXCEPT ![c] = p]
  /\ pc' = [pc EXCEPT ![c] = "registered"]
  /\ UNCHANGED <<result, netVars, handlerVars, callbacks, clientVars, acceptVars,
                 closeVars, logVars, frameVars, side, extVars>>

\* lines 140-146: self.sender.send(request, client=client.conn); when it
\* fails, del self._pending_requests[request.request_id] under the lock
\* (KeyError when the key is gone) and return None
S_Send(c) ==
  /\ side = "server"
  /\ pc[c] = "registered"
  /\ \E sent \in SendResults(target[c]) :
       /\ to_peer' = Written(target[c], Compile(req[c], c), sent)
       /\ IF sent
          THEN /\ pc' = [pc EXCEPT ![c] = "waiting"]
               /\ UNCHANGED pending_requests
          ELSE IF req[c].request_id \in DOMAIN pending_requests
          THEN /\ pending_requests' = DelKey(pending_requests, req[c].request_id)
               /\ pc' = [pc EXCEPT ![c] = "done_sendfail"]
          ELSE /\ pc' = [pc EXCEPT ![c] = "raised"]
               /\ UNCHANGED pending_requests
  /\ UNCHANGED <<queue, req, target, result, from_peer, sock, peer_open, handlerVars,
                 callbacks, clientVars, acceptVars, closeVars, logVars, frameVars, side, extVars>>

\* line 150: response_queue.get(timeout=timeout) returns an item
S_Get(c) ==
  /\ side = "server"
  /\ pc[c] = "waiting"
  /\ queue[c] # <<>>
  /\ result' = [result EXCEPT ![c] = Head(queue[c])]
  /\ queue' = [queue EXCEPT ![c] = Tail(@)]
  /\ pc' = [pc EXCEPT ![c] = "got"]
  /\ UNCHANGED <<pending_requests, req, target, netVars, handlerVars, callbacks,
                 clientVars, acceptVars, closeVars, logVars, frameVars, side, extVars>>

\* lines 150, 153: the timeout ends with the Queue empty, get raises Empty
S_Empty(c) ==
  /\ side = "server"
  /\ pc[c] = "waiting"
  /\ queue[c] = <<>>
  /\ pc' = [pc EXCEPT ![c] = "empty"]
  /\ UNCHANGED <<pending_requests, queue, req, target, result, netVars, handlerVars,
                 callbacks, clientVars, acceptVars, closeVars, logVars, frameVars, side, extVars>>

\* lines 158-162: finally: under the lock, delete the key if it is there;
\* then the return of line 152 or 157
S_Finally(c) ==
  /\ side = "server"
  /\ pc[c] \in {"got", "empty"}
  /\ pending_requests' = IF req[c].request_id \in DOMAIN pending_requests
                         THEN DelKey(pending_requests, req[c].request_id)
                         ELSE pending_requests
  /\ pc' = [pc EXCEPT ![c] = IF pc[c] = "got" THEN "done_response" ELSE "done_timeout"]
  /\ UNCHANGED <<queue, req, target, result, netVars, handlerVars, callbacks, clientVars,
                 acceptVars, closeVars, logVars, frameVars, side, extVars>>

\* S_HandlerStart without lines 251-261: the handler enters its loop and
\* on_connect is not called.
S_HandlerStartSilent(p) ==
  /\ side = "server"
  /\ hpc[p] = "start"
  /\ hpc' = [hpc EXCEPT ![p] = "recv"]
  /\ UNCHANGED <<callerVars, netVars, hmsg, hq, callbacks, clientVars, acceptVars,
                 closeVars, logVars, frameVars, side, extVars>>

\* -------------------------------------------------- Server.handle_client
\* lines 251-261: on_connect(client), if set, before the loop
S_HandlerStart(p) ==
  /\ side = "server"
  /\ hpc[p] = "start"
  /\ conn_log' = IF "on_connect" \in callbacks THEN Append(conn_log, p) ELSE conn_log
  /\ hpc' = [hpc EXCEPT ![p] = "recv"]
  /\ UNCHANGED <<callerVars, netVars, hmsg, hq, callbacks, clientVars, acceptVars,
                 closeVars, recv_log, disc_log, frameVars, side, extVars>>

\* lines 264, 271-275: recv returned a frame; parse it
S_HandlerRecv(p) ==
  /\ side = "server"
  /\ hpc[p] = "recv"
  /\ RecvFrame(p, "recv")
  /\ UNCHANGED <<callerVars, to_peer, sock, peer_open, hq, callbacks, clientVars,
                 acceptVars, closeVars, logVars, sent_frames, side, extVars>>

\* close_client without client.conn.close(): the connection is left to the
\* garbage collector.
CloseConnKeepsOpen(p) ==
  /\ disc_log' = IF "on_disconnect" \in callbacks THEN Append(disc_log, p) ELSE disc_log
  /\ sock' = sock

\* close_client, lines 322-336: on_disconnect(client), if set, then
\* client.conn.close()
CloseConn(p) ==
  /\ disc_log' = IF "on_disconnect" \in callbacks THEN Append(disc_log, p) ELSE disc_log
  /\ sock' = [sock EXCEPT ![p] = "closed"]

\* handle_client that reads again when recv returned None.
S_HandlerRecvNoneRetries(p) ==
  /\ side = "server"
  /\ hpc[p] = "recv"
  /\ RecvNone(p)
  /\ UNCHANGED vars

\* lines 266-269: recv returned None; self.close_client(client), which runs
\* on this handler thread; break when it returns
S_HandlerRecvNone(p) ==
  /\ side = "server"
  /\ hpc[p] = "recv"
  /\ RecvNone(p)
  /\ CloseConn(p)
  /\ hpc' = [hpc EXCEPT ![p] = "closing"]
  /\ cpc' = [cpc EXCEPT ![HandlerCtx(p)] = "remove"]
  /\ ctarget' = [ctarget EXCEPT ![HandlerCtx(p)] = p]
  /\ cwas_in' = [cwas_in EXCEPT ![HandlerCtx(p)] = InList(clients, p)]
  /\ UNCHANGED <<callerVars, to_peer, from_peer, peer_open, hmsg, hq, callbacks,
                 clientVars, acceptVars, cres, recv_log, conn_log, frameVars, side, extVars>>

\* lines 277-282: auto-respond to PING with a PONG of the same request_id
S_HandlerPing(p) ==
  /\ side = "server"
  /\ hpc[p] = "parsed"
  /\ hmsg[p].type = PING
  /\ \E sent \in SendResults(p) :
       to_peer' = Written(p, Compile(Request(PONG, <<>>, hmsg[p].request_id), 0), sent)
  /\ fate' = [fate EXCEPT ![hmsg[p].serial] = "pong"]
  /\ hpc' = [hpc EXCEPT ![p] = "recv"]
  /\ hmsg' = [hmsg EXCEPT ![p] = None]
  /\ UNCHANGED <<callerVars, from_peer, sock, peer_open, hq, callbacks, clientVars,
                 acceptVars, closeVars, logVars, sent_frames, late, side, extVars>>

\* S_HandlerCheck without the try around on_recv and with the receive loop
\* outside any try: an exception of on_recv ends the handler thread.
S_HandlerCheckFatal(p) ==
  /\ side = "server"
  /\ hpc[p] = "parsed"
  /\ hmsg[p].type # PING
  /\ IF hmsg[p].request_id \in DOMAIN pending_requests
     THEN /\ hq' = [hq EXCEPT ![p] = pending_requests[hmsg[p].request_id]]
          /\ hpc' = [hpc EXCEPT ![p] = "put"]
          /\ UNCHANGED <<hmsg, recv_log, fate>>
     ELSE /\ recv_log' = IF "on_recv" \in callbacks
                         THEN Append(recv_log, [client |-> p, msg |-> hmsg[p]])
                         ELSE recv_log
          /\ fate' = [fate EXCEPT ![hmsg[p].serial] = CallbackFate("on_recv")]
          /\ hpc' = [hpc EXCEPT ![p] =
                       IF CallbackFate("on_recv") = "raised" THEN "exit" ELSE "recv"]
          /\ hmsg' = [hmsg EXCEPT ![p] = None]
          /\ UNCHANGED hq
  /\ UNCHANGED <<callerVars, netVars, callbacks, clientVars, acceptVars, closeVars,
                 conn_log, disc_log, sent_frames, late, side, extVars>>

\* lines 284-304: under the lock, test the request_id and fetch its Queue;
\* when nobody waits the Response goes to on_recv(client, response), if set
S_HandlerCheck(p) ==
  /\ side = "server"
  /\ hpc[p] = "parsed"
  /\ hmsg[p].type # PING
  /\ IF hmsg[p].request_id \in DOMAIN pending_requests
     THEN /\ hq' = [hq EXCEPT ![p] = pending_requests[hmsg[p].request_id]]
          /\ hpc' = [hpc EXCEPT ![p] = "put"]
          /\ UNCHANGED <<hmsg, recv_log, fate>>
     ELSE /\ recv_log' = IF "on_recv" \in callbacks
                         THEN Append(recv_log, [client |-> p, msg |-> hmsg[p]])
                         ELSE recv_log
          /\ fate' = [fate EXCEPT ![hmsg[p].serial] = CallbackFate("on_recv")]
          /\ hpc' = [hpc EXCEPT ![p] = "recv"]
          /\ hmsg' = [hmsg EXCEPT ![p] = None]
          /\ UNCHANGED hq
  /\ UNCHANGED <<callerVars, netVars, callbacks, clientVars, acceptVars, closeVars,
                 conn_log, disc_log, sent_frames, late, side, extVars>>

\* line 291: queue.put(response), outside the lock; blocks while the Queue
\* is full
S_HandlerPut(p) ==
  /\ side = "server"
  /\ hpc[p] = "put"
  /\ Len(queue[hq[p]]) < 1
  /\ queue' = [queue EXCEPT ![hq[p]] = Append(@, hmsg[p])]
  /\ fate' = [fate EXCEPT ![hmsg[p].serial] = "queued"]
  /\ hpc' = [hpc EXCEPT ![p] = "recv"]
  /\ hmsg' = [hmsg EXCEPT ![p] = None]
  /\ hq' = [hq EXCEPT ![p] = 0]
  /\ UNCHANGED <<pending_requests, pc, req, target, result, netVars, callbacks,
                 clientVars, acceptVars, closeVars, logVars, sent_frames, late, side, extVars>>

\* ---------------------------------------------------- Server.close_client
\* line 311: a user thread calls close_client(client); lines 322-336
S_CloseClient(x, p) ==
  /\ side = "server"
  /\ x \in Closers
  /\ cpc[x] = "idle"
  /\ p \in Known
  /\ CloseConn(p)
  /\ cpc' = [cpc EXCEPT ![x] = "remove"]
  /\ ctarget' = [ctarget EXCEPT ![x] = p]
  /\ cwas_in' = [cwas_in EXCEPT ![x] = InList(clients, p)]
  /\ cres' = [cres EXCEPT ![x] = FALSE]
  /\ UNCHANGED <<callerVars, to_peer, from_peer, peer_open, handlerVars, callbacks,
                 clientVars, acceptVars, recv_log, conn_log, frameVars, side, extVars>>

\* What ends a close_client call in context x with result r; a handler
\* thread then leaves its loop (line 269).  A context calls once.
CloseReturns(x, r) ==
  /\ cpc' = [cpc EXCEPT ![x] = "done"]
  /\ cres' = [cres EXCEPT ![x] = r]
  /\ hpc' = IF x \in Closers THEN hpc ELSE [hpc EXCEPT ![x - NumClosers] = "exit"]

\* S_CloseRemove without the early return: a client that is not in the list
\* falls through to the join loop.
S_CloseRemoveFallsThrough(x) ==
  /\ side = "server"
  /\ cpc[x] = "remove"
  /\ clients' = Remove(clients, ctarget[x])
  /\ cpc' = [cpc EXCEPT ![x] = "join"]
  /\ UNCHANGED <<callerVars, netVars, handlerVars, callbacks, clientVars, threads, n_th,
                 apc, aconn, attempts, ctarget, cwas_in, cres, logVars, frameVars, side, extVars>>

\* lines 338-344: under the lock, remove the client from self.clients, or
\* return False when it is not there
S_CloseRemove(x) ==
  /\ side = "server"
  /\ cpc[x] = "remove"
  /\ IF InList(clients, ctarget[x])
     THEN /\ clients' = Remove(clients, ctarget[x])
          /\ cpc' = [cpc EXCEPT ![x] = "join"]
          /\ UNCHANGED <<cres, hpc>>
     ELSE /\ CloseReturns(x, FALSE)
          /\ UNCHANGED clients
  /\ UNCHANGED <<callerVars, netVars, hmsg, hq, callbacks, clientVars, threads, n_th,
                 apc, aconn, attempts, ctarget, cwas_in, logVars, frameVars, side, extVars>>

\* lines 346-358: join the client's thread, if registered and alive, for
\* 10 ms.  Thread.join raises RuntimeError on the current thread, which the
\* except clause turns into the result False.
S_CloseJoin(x) ==
  /\ side = "server"
  /\ cpc[x] = "join"
  /\ CloseReturns(x, ~(x = HandlerCtx(ctarget[x]) /\ InList(threads, ctarget[x])))
  /\ UNCHANGED <<callerVars, netVars, hmsg, hq, callbacks, clientVars, acceptVars,
                 ctarget, cwas_in, logVars, frameVars, side, extVars>>

\* ---------------------------------------------------------- Server.start
\* line 204: `while self.running`, read as an iteration ends
S_Loop == IF running THEN "count" ELSE "exit"

\* lines 195-202: start() keeps the accept thread in self.start_th and the
\* thread runs the accept loop; self.socket.listen() raises on a socket
\* close_all has closed
S_Start ==
  /\ side = "server"
  /\ apc = "init"
  /\ start_th' = TRUE
  /\ apc' = IF listening THEN S_Loop ELSE "exit"
  /\ UNCHANGED <<callerVars, netVars, handlerVars, callbacks, clientVars, clients,
                 threads, n_th, aconn, attempts, closeVars, logVars, frameVars, side,
                 raising, dcalls, shutVars, regVars, codecVars, laterVars, streamVars, on_thread>>

\* lines 195, 201-204: start(_on_th=True) called directly: the caller's
\* thread runs the accept loop and self.start_th stays None
S_StartDirect ==
  /\ side = "server"
  /\ apc = "init"
  /\ apc' = IF listening THEN S_Loop ELSE "exit"
  /\ UNCHANGED <<callerVars, netVars, handlerVars, callbacks, clientVars, clients,
                 threads, n_th, aconn, attempts, closeVars, logVars, frameVars, side, extVars>>

\* S_AcceptCount comparing with > where the code has >=.
S_AcceptCountOffByOne ==
  /\ side = "server"
  /\ apc = "count"
  /\ apc' = IF Len(clients) > max_connection THEN S_Loop ELSE "accept"
  /\ UNCHANGED <<callerVars, netVars, handlerVars, callbacks, clientVars, clients,
                 threads, n_th, aconn, attempts, closeVars, logVars, frameVars, side, extVars>>

\* lines 206-210: count the clients under the lock; continue when the server
\* is full
S_AcceptCount ==
  /\ side = "server"
  /\ apc = "count"
  /\ apc' = IF Len(clients) >= max_connection THEN S_Loop ELSE "accept"
  /\ UNCHANGED <<callerVars, netVars, handlerVars, callbacks, clientVars, clients,
                 threads, n_th, aconn, attempts, closeVars, logVars, frameVars, side, extVars>>

\* lines 212-218: accept() returns a connection; it gets the next thread_id
S_Accept ==
  /\ side = "server"
  /\ apc = "accept"
  /\ listening
  /\ n_th < attempts
  /\ n_th' = n_th + 1
  /\ aconn' = n_th + 1
  /\ sock' = [sock EXCEPT ![n_th + 1] = "open"]
  /\ peer_open' = [peer_open EXCEPT ![n_th + 1] = TRUE]
  /\ apc' = "append"
  /\ UNCHANGED <<callerVars, to_peer, from_peer, handlerVars, callbacks, clientVars,
                 clients, threads, attempts, closeVars, logVars, frameVars, side, extVars>>

\* lines 212, 232-233, 204-210: accept() times out after 0.5 s; continue:
\* the loop tests self.running and counts the clients again, and calls
\* accept() again unless the server is full
S_AcceptTimeout ==
  /\ side = "server"
  /\ apc = "accept"
  /\ listening
  /\ apc' = IF ~running THEN "exit"
            ELSE IF Len(clients) >= max_connection THEN "count" ELSE "accept"
  /\ UNCHANGED <<callerVars, netVars, handlerVars, callbacks, clientVars, clients,
                 threads, n_th, aconn, attempts, closeVars, logVars, frameVars, side, extVars>>

\* lines 212, 234-236: accept() on the socket close_all has closed raises
\* OSError; the accept loop returns
S_AcceptError ==
  /\ side = "server"
  /\ apc = "accept"
  /\ ~listening
  /\ apc' = "exit"
  /\ UNCHANGED <<callerVars, netVars, handlerVars, callbacks, clientVars, clients,
                 threads, n_th, aconn, attempts, closeVars, logVars, frameVars, side, extVars>>

\* lines 220-222: self.clients.append(client), under the lock
S_Append ==
  /\ side = "server"
  /\ apc = "append"
  /\ clients' = Append(clients, aconn)
  /\ apc' = "spawn"
  /\ UNCHANGED <<callerVars, netVars, handlerVars, callbacks, clientVars, threads,
                 n_th, aconn, attempts, closeVars, logVars, frameVars, side, extVars>>

\* lines 227-228: start the handler thread of the client
S_Spawn ==
  /\ side = "server"
  /\ apc = "spawn"
  /\ hpc' = [hpc EXCEPT ![aconn] = "start"]
  /\ apc' = "register"
  /\ UNCHANGED <<callerVars, netVars, hmsg, hq, callbacks, clientVars, clients,
                 threads, n_th, aconn, attempts, closeVars, logVars, frameVars, side, extVars>>

\* lines 230-231: self.threads.append((thread_id, thread)), under the lock
S_RegisterThread ==
  /\ side = "server"
  /\ apc = "register"
  /\ threads' = Append(threads, aconn)
  /\ apc' = S_Loop
  /\ UNCHANGED <<callerVars, netVars, handlerVars, callbacks, clientVars, clients,
                 n_th, aconn, attempts, closeVars, logVars, frameVars, side, extVars>>

\* ------------------------------------------------------- Server.close_all
\* The user thread that calls close_all: the first closer.
ShutCtx == 1

\* lines 422-429: self.running = False when self.start_th is set; copy
\* self.clients under the lock
S_CloseAll ==
  /\ side = "server"
  /\ spc = "idle"
  /\ cpc[ShutCtx] \in {"idle", "done"}
  /\ running' = IF start_th THEN FALSE ELSE running
  /\ to_close' = clients
  /\ spc' = "clients"
  /\ UNCHANGED <<callerVars, netVars, handlerVars, callbacks, is_connected, acceptVars,
                 closeVars, logVars, frameVars, side, raising, dcalls, listening, regVars,
                 codecVars, laterVars, lastVars>>

\* lines 431-435: self.close_client(client) for the next client of the
\* copy; the call begins as S_CloseClient does and goes on with
\* S_CloseRemove and S_CloseJoin
S_CloseAllClient ==
  /\ side = "server"
  /\ spc = "clients"
  /\ to_close # <<>>
  /\ cpc[ShutCtx] \in {"idle", "done"}
  /\ CloseConn(Head(to_close))
  /\ cpc' = [cpc EXCEPT ![ShutCtx] = "remove"]
  /\ ctarget' = [ctarget EXCEPT ![ShutCtx] = Head(to_close)]
  /\ cwas_in' = [cwas_in EXCEPT ![ShutCtx] = InList(clients, Head(to_close))]
  /\ cres' = [cres EXCEPT ![ShutCtx] = FALSE]
  /\ to_close' = Tail(to_close)
  /\ UNCHANGED <<callerVars, to_peer, from_peer, peer_open, handlerVars, callbacks,
                 clientVars, acceptVars, recv_log, conn_log, frameVars, side, raising,
                 dcalls, spc, listening, regVars, codecVars, laterVars, lastVars>>

\* lines 437-458: join every registered thread for 10 ms, close the
\* listening socket, return
S_CloseAllFinish ==
  /\ side = "server"
  /\ spc = "clients"
  /\ to_close = <<>>
  /\ cpc[ShutCtx] \in {"idle", "done"}
  /\ listening' = FALSE
  /\ spc' = "done"
  /\ UNCHANGED <<callerVars, netVars, handlerVars, callbacks, clientVars, acceptVars,
                 closeVars, logVars, frameVars, side, raising, dcalls, to_close, regVars,
                 codecVars, laterVars, lastVars>>

\* ------------------------------------------------------------- Sender
\* The socket objects the endpoint holds: the client's own, or those the
\* accept loop has returned.  NoSocket is the argument None.
NoSocket == 0
Sockets == {p \in Conns : sock[p] # "none"}

\* A content that is a str: len() accepts it, hashlib.sha256 raises TypeError
\* (request.py line 185).
StrContent == [str |-> TRUE]
SendData == {Request(USER, <<>>, IdA), Request(USER, StrContent, IdA)}

\* target.sendall(compiled_data), sender.py line 80: all bytes are handed
\* over, or it raises.  A socket that is not connected or closed raises
\* OSError; once the remote end has closed, a write may still succeed.
Sendall(p) ==
  IF sock[p] # "open" THEN {"OSError"}
  ELSE IF peer_open[p] THEN {"sent"}
  ELSE {"sent", "ConnectionResetError", "BrokenPipeError"}

\* Sender.send with the except clause of lines 85-87 alone: any other
\* exception reaches the caller.
SendReturnNarrow(stage) ==
  CASE stage = "sent" -> "True"
    [] stage \in {"no_target", "ConnectionResetError", "BrokenPipeError"} -> "False"
    [] OTHER -> "raised"

\* lines 71-90: what send returns after each way its body can end
SendReturn(stage) ==
  CASE stage = "no_target" -> "False"
    [] stage = "sent" -> "True"
    [] stage \in {"ConnectionResetError", "BrokenPipeError"} -> "False"
    [] OTHER -> "False"

\* Sender.send(data, client) with its target tgt already chosen (line 69):
\* how the body ends and what is returned
SendOutcomes(data, tgt) ==
  LET stages == IF tgt = NoSocket THEN {"no_target"}
                ELSE IF data.content = StrContent THEN {"TypeError"}
                ELSE Sendall(tgt)
  IN  {[stage |-> st, ret |-> SendReturn(st)] : st \in stages}

otherVarsOfSender == <<callerVars, from_peer, sock, peer_open, handlerVars, callbacks,
                       clientVars, acceptVars, closeVars, logVars, frameVars, side, raising,
                       dcalls, shutVars, regVars, codecVars, pingVars, toVars,
                       connect_result, lastVars>>

\* A user thread calls sender.send(data, client); in CLIENT mode the
\* target is self.conn and client is ignored.
Snd_Send(data, client) ==
  /\ Len(slog) < MaxSends
  /\ client \in (IF side = "client" THEN {NoSocket} ELSE Sockets \cup {NoSocket})
  /\ LET tgt == IF side = "client" THEN 1 ELSE client
     IN  \E o \in SendOutcomes(data, tgt) :
           /\ to_peer' = IF o.stage = "sent"
                         THEN Written(tgt, Compile(data, 0), TRUE)
                         ELSE to_peer
           /\ slog' = Append(slog, [target |-> tgt, stage |-> o.stage, ret |-> o.ret])
  /\ UNCHANGED <<bpc, bdata, blist, bexcept, bi, bresults, bret, blog, otherVarsOfSender>>

\* broadcast, lines 109-126: CLIENT mode and the empty list return at once
B_Start(data, list_of_client, except_clients) ==
  /\ bpc = "idle"
  /\ bdata' = data
  /\ blist' = list_of_client
  /\ bexcept' = except_clients
  /\ IF side = "client"
     THEN /\ bret' = "False"
          /\ bpc' = "done"
          /\ UNCHANGED bi
     ELSE IF list_of_client = <<>>
     THEN /\ bret' = "True"
          /\ bpc' = "done"
          /\ UNCHANGED bi
     ELSE /\ bi' = 1
          /\ bpc' = "loop"
          /\ UNCHANGED bret
  /\ UNCHANGED <<to_peer, slog, bresults, blog, otherVarsOfSender>>

\* broadcast that gives up at the first send that fails.
B_StepUntilFailure ==
  /\ bpc = "loop"
  /\ bi <= Len(blist)
  /\ IF blist[bi] \in bexcept
     THEN /\ bi' = bi + 1
          /\ UNCHANGED <<to_peer, bresults, blog>>
     ELSE \E o \in SendOutcomes(bdata, blist[bi]) :
            /\ to_peer' = IF o.stage = "sent"
                          THEN Written(blist[bi], Compile(bdata, 0), TRUE)
                          ELSE to_peer
            /\ bresults' = Append(bresults, o.ret)
            /\ blog' = Append(blog, [target |-> blist[bi], stage |-> o.stage,
                                     ret |-> o.ret])
            /\ bi' = IF o.ret = "True" THEN bi + 1 ELSE Len(blist) + 1
  /\ UNCHANGED <<slog, bpc, bdata, blist, bexcept, bret, otherVarsOfSender>>

\* lines 128-144: one iteration of the loop: skip an excluded client, or
\* send and append the result
B_Step ==
  /\ bpc = "loop"
  /\ bi <= Len(blist)
  /\ IF blist[bi] \in bexcept
     THEN UNCHANGED <<to_peer, bresults, blog>>
     ELSE \E o \in SendOutcomes(bdata, blist[bi]) :
            /\ to_peer' = IF o.stage = "sent"
                          THEN Written(blist[bi], Compile(bdata, 0), TRUE)
                          ELSE to_peer
            /\ bresults' = Append(bresults, o.ret)
            /\ blog' = Append(blog, [target |-> blist[bi], stage |-> o.stage,
                                     ret |-> o.ret])
  /\ bi' = bi + 1
  /\ UNCHANGED <<slog, bpc, bdata, blist, bexcept, bret, otherVarsOfSender>>

\* broadcast that returns any(results).
B_ReturnAny ==
  /\ bpc = "loop"
  /\ bi > Len(blist)
  /\ bret' = IF \E k \in 1..Len(bresults) : bresults[k] = "True" THEN "True" ELSE "False"
  /\ bpc' = "done"
  /\ UNCHANGED <<to_peer, slog, bdata, blist, bexcept, bi, bresults, blog,
                 otherVarsOfSender>>

\* lines 146-156: return all(results)
B_Return ==
  /\ bpc = "loop"
  /\ bi > Len(blist)
  /\ bret' = IF \A k \in 1..Len(bresults) : bresults[k] = "True" THEN "True" ELSE "False"
  /\ bpc' = "done"
  /\ UNCHANGED <<to_peer, slog, bdata, blist, bexcept, bi, bresults, blog,
                 otherVarsOfSender>>

\* --------------------------------------------------------------- ping
\* Response.latency, request.py lines 35-43
latency(response) == response.received_at - response.timestamp

otherVarsOfPing == <<queue, pc, req, target, result, netVars, handlerVars, callbacks,
                     clientVars, acceptVars, closeVars, logVars, frameVars, side, raising,
                     dcalls, shutVars, regVars, codecVars, sndVars, toVars, connect_result, lastVars>>

\* A millisecond passes.
Tick ==
  /\ clock < ClockStart + MaxTicks
  /\ clock' = clock + 1
  /\ UNCHANGED <<pending_requests, skew, ppc, pout, pin, presp, pres, pt0, pt1,
                 otherVarsOfPing>>

\* The remote host's clock is set s milliseconds off this endpoint's.
PeerClockOff(s) ==
  /\ ppc = "idle"
  /\ skew = 0
  /\ s # 0
  /\ skew' = s
  /\ UNCHANGED <<pending_requests, clock, ppc, pout, pin, presp, pres, pt0, pt1,
                 otherVarsOfPing>>

\* ping_server, client.py lines 167-168, ping_client, server.py lines
\* 400-401: Request(PING, b"") and send_and_wait up to the send: the Queue
\* is registered and the compiled probe written
P_Call(request_id) ==
  /\ ppc = "idle"
  /\ pending_requests' = SetKey(pending_requests, request_id, 1)
  /\ pout' = compile(Request(PING, <<>>, request_id), clock)
  /\ pt0' = clock
  /\ ppc' = "waiting"
  /\ UNCHANGED <<clock, skew, pin, presp, pres, pt1, otherVarsOfPing>>

\* The remote end is a Veltix endpoint: its handler parses the probe and
\* sends Request(PONG, b"", request_id=response.request_id), compiled on
\* its own clock (client.py lines 198-203, server.py lines 277-282).
PeerPong ==
  /\ pout # <<>>
  /\ LET response == parse(pout, clock + skew)
     IN  /\ IsResponse(response)
         /\ response.type.code = PING
         /\ pin' = compile(Request(PONG, <<>>, response.request_id), clock + skew)
  /\ pout' = <<>>
  /\ UNCHANGED <<pending_requests, clock, skew, ppc, presp, pres, pt0, pt1,
                 otherVarsOfPing>>

\* The handler of this endpoint reads the reply, parses it on its own clock
\* and puts it in the Queue registered under its request_id; with no waiter
\* left it goes to on_recv (client.py lines 187-216, server.py 264-304).
P_Handler ==
  /\ pin # <<>>
  /\ LET response == parse(pin, clock)
     IN  IF IsResponse(response) /\ response.type.code # PING
            /\ response.request_id \in DOMAIN pending_requests
         THEN /\ presp' = response
              /\ pt1' = clock
         ELSE UNCHANGED <<presp, pt1>>
  /\ pin' = <<>>
  /\ UNCHANGED <<pending_requests, clock, skew, ppc, pout, pres, pt0, otherVarsOfPing>>

\* send_and_wait: response_queue.get(timeout=timeout) returns the Response
\* that arrived within the timeout, the entry is popped; ping returns
\* response.latency (client.py lines 146-154, 170-173)
P_Return ==
  /\ ppc = "waiting"
  /\ presp # None
  /\ pt1 - pt0 < PingTimeout
  /\ pres' = latency(presp)
  /\ pending_requests' = [k \in DOMAIN pending_requests \ {presp.request_id} |->
                            pending_requests[k]]
  /\ ppc' = "done"
  /\ UNCHANGED <<clock, skew, pout, pin, presp, pt0, pt1, otherVarsOfPing>>

\* send_and_wait: the timeout passes with the Queue empty: Empty, the entry
\* is popped; ping returns None (client.py lines 149-154, 174-176)
P_Timeout ==
  /\ ppc = "waiting"
  /\ clock - pt0 >= PingTimeout
  /\ presp = None \/ pt1 - pt0 >= PingTimeout
  /\ pending_requests' = << >>
  /\ ppc' = "timeout"
  /\ UNCHANGED <<clock, skew, pout, pin, presp, pres, pt0, pt1, otherVarsOfPing>>

\* ------------------------------------------------- the type registry
otherVarsOfRegistry == <<callerVars, netVars, handlerVars, callbacks, clientVars,
                         acceptVars, closeVars, logVars, frameVars, side, raising, dcalls,
                         shutVars, codecVars, laterVars, lastVars>>

\* MessageType.__init__(code, name), types.py lines 75-83: the range check,
\* then the fields.  `registered_at_call` is history: whether the code was
\* in the registry when the call began.
R_Init(r, code) ==
  /\ rpc[r] = "idle"
  /\ rtype' = [rtype EXCEPT ![r] = [code |-> code, name |-> RegNames[r],
                                    registered_at_call |-> code \in DOMAIN registry]]
  /\ IF ~(0 <= code /\ code <= MaxCode)
     THEN /\ rres' = [rres EXCEPT ![r] = "MessageTypeError"]
          /\ rpc' = [rpc EXCEPT ![r] = "done"]
     ELSE /\ rpc' = [rpc EXCEPT ![r] = "check"]
          /\ UNCHANGED rres
  /\ UNCHANGED <<registry, otherVarsOfRegistry>>

\* MessageTypeRegistry.register that stores the new type over the one
\* already registered.
R_CheckReplace(r) ==
  /\ rpc[r] = "check"
  /\ IF rtype[r].code \in DOMAIN registry
     THEN /\ registry' = SetKey(registry, rtype[r].code,
                                [code |-> rtype[r].code, name |-> rtype[r].name])
          /\ rres' = [rres EXCEPT ![r] = "registered"]
          /\ rpc' = [rpc EXCEPT ![r] = "done"]
     ELSE /\ rpc' = [rpc EXCEPT ![r] = "store"]
          /\ UNCHANGED <<registry, rres>>
  /\ UNCHANGED <<rtype, otherVarsOfRegistry>>

\* MessageTypeRegistry.register, lines 31-35: `if msg_type.code in
\* cls._registry: raise MessageTypeError`
R_Check(r) ==
  /\ rpc[r] = "check"
  /\ IF rtype[r].code \in DOMAIN registry
     THEN /\ rres' = [rres EXCEPT ![r] = "MessageTypeError"]
          /\ rpc' = [rpc EXCEPT ![r] = "done"]
     ELSE /\ rpc' = [rpc EXCEPT ![r] = "store"]
          /\ UNCHANGED rres
  /\ UNCHANGED <<registry, rtype, otherVarsOfRegistry>>

\* line 36: cls._registry[msg_type.code] = msg_type, a statement of its own:
\* no lock is held from the test of line 31 to here
R_Store(r) ==
  /\ rpc[r] = "store"
  /\ registry' = SetKey(registry, rtype[r].code,
                        [code |-> rtype[r].code, name |-> rtype[r].name])
  /\ rres' = [rres EXCEPT ![r] = "registered"]
  /\ rpc' = [rpc EXCEPT ![r] = "done"]
  /\ UNCHANGED <<rtype, otherVarsOfRegistry>>

\* ------------------------------------------------------------ callbacks
\* client.py lines 72-85, server.py lines 97-116: user code sets callbacks
\* that raise an exception on every call.
SetRaisingCallbacks ==
  /\ raising = {}
  /\ raising' = callbacks
  /\ UNCHANGED <<callerVars, netVars, handlerVars, callbacks, clientVars, acceptVars,
                 closeVars, logVars, frameVars, side, dcalls, shutVars, regVars, codecVars, laterVars, lastVars>>

\* The application calls socket.setdefaulttimeout(t) before it creates the
\* endpoint: the client's socket and the sockets accept() returns have a
\* timeout, and a recv that gets nothing in time raises socket.timeout
\* (utils/network.py lines 30-33).
SetDefaultTimeout ==
  /\ ~conn_timeout
  /\ n_th = 0
  /\ apc \in {"init", "off"}
  /\ connect_result = "none"
  /\ conn_timeout' = TRUE
  /\ UNCHANGED <<callerVars, netVars, handlerVars, callbacks, clientVars, acceptVars,
                 closeVars, logVars, frameVars, side, raising, dcalls, shutVars, regVars,
                 codecVars, sndVars, pingVars, connect_result, lastVars>>

\* ------------------------------------------------------- the remote ends
\* A frame the remote end of connection p writes is appended to from_peer[p]
\* and to the history sent_frames, whose index is the frame's serial.
PeerWrites(p, frame) ==
  /\ Len(sent_frames) < MaxPeerFrames
  /\ LET f == [frame EXCEPT !.serial = Len(sent_frames) + 1]
     IN  /\ sent_frames' = Append(sent_frames, [f EXCEPT !.re = <<p, frame.re>>])
         /\ from_peer' = [from_peer EXCEPT ![p] = Append(@, f)]

\* The remote end answers the i-th frame it holds, in any order: it echoes
\* the frame under the request id it received (the on_message of the tests).
PeerEcho(p, i) ==
  /\ peer_open[p]
  /\ i \in 1..Len(to_peer[p])
  /\ PeerWrites(p, to_peer[p][i])
  /\ to_peer' = [to_peer EXCEPT ![p] =
                   SubSeq(@, 1, i - 1) \o SubSeq(@, i + 1, Len(@))]
  /\ UNCHANGED <<callerVars, sock, peer_open, handlerVars, callbacks, clientVars,
                 acceptVars, closeVars, logVars, fate, late, side, extVars>>

\* The frames a remote end writes unasked: any registered type under any
\* wire id, or bytes parse rejects.
PeerFrames ==
  {[code |-> t, content |-> <<>>, request_id_bytes |-> b, ok |-> TRUE, re |-> 0, serial |-> 0] :
     t \in {PING, PONG, USER}, b \in WireIds}
  \cup {[code |-> USER, content |-> <<>>, request_id_bytes |-> CompileId(IdA), ok |-> FALSE,
          re |-> 0, serial |-> 0]}

PeerSend(p, frame) ==
  /\ peer_open[p]
  /\ PeerWrites(p, frame)
  /\ UNCHANGED <<callerVars, to_peer, sock, peer_open, handlerVars, callbacks, clientVars,
                 acceptVars, closeVars, logVars, fate, late, side, extVars>>

\* The remote end closes the connection.
PeerClose(p) ==
  /\ peer_open[p]
  /\ peer_open' = [peer_open EXCEPT ![p] = FALSE]
  /\ to_peer' = [to_peer EXCEPT ![p] = <<>>]
  /\ UNCHANGED <<callerVars, from_peer, sock, handlerVars, callbacks, clientVars,
                 acceptVars, closeVars, logVars, frameVars, side, extVars>>

\* ------------------------------------------------------------------- Init
\* The callbacks an endpoint is given before connect() / start(): all of them.
\* (Without a callback the handlers do the same and skip the call.)
CallbackSets == {{"on_recv", "on_connect", "on_disconnect"}}

\* No callback raises.
NoRaise == raising = {}

\* No user thread has called disconnect.
NoDisconnect == dcalls = 0

\* close_all has not been called; Server.__init__ line 87 made the socket.
NoShut ==
  /\ spc = "idle"
  /\ to_close = <<>>
  /\ listening = TRUE

\* system_types.py lines 6-15, and the type the application registers:
\* the registry once the package and the application are imported.
SystemTypes ==
  [c \in {PING, PONG, HEARTBEAT, HELLO, ERROR, INVALID_REQUEST, USER} |->
     [code |-> c, name |-> "imported"]]

\* Nobody is creating a MessageType.
RegIdle ==
  /\ registry = SystemTypes
  /\ rpc = [r \in Registrants |-> "idle"]
  /\ rtype = [r \in Registrants |-> None]
  /\ rres = [r \in Registrants |-> "pending"]

\* No Request is being compiled or parsed.
CodecIdle ==
  /\ creq = None
  /\ cts = 0
  /\ cdata = <<>>
  /\ cout = None
  /\ tamper = "off"

\* No thread has called send or broadcast on the Sender.
NoSends ==
  /\ slog = <<>>
  /\ bpc = "idle"
  /\ bdata = None
  /\ blist = <<>>
  /\ bexcept = {}
  /\ bi = 0
  /\ bresults = <<>>
  /\ bret = "none"
  /\ blog = <<>>

\* Nobody has called ping; the two clocks agree.
PingIdle ==
  /\ clock = ClockStart
  /\ skew = 0
  /\ ppc = "idle"
  /\ pout = <<>>
  /\ pin = <<>>
  /\ presp = None
  /\ pres = None
  /\ pt0 = 0
  /\ pt1 = 0

\* Sockets are made without a timeout (socket.getdefaulttimeout() is None).
NoTimeout == conn_timeout = FALSE

\* connect() has not been called.
NotDialled == connect_result = "none"

\* Server.__init__ line 74: self.start_th = None
NotStarted == start_th = FALSE

\* A connection on which nothing has been written or read yet.
StreamIdle ==
  /\ wire = <<>>
  /\ wlog = <<>>
  /\ rlog = <<>>

\* No call has been issued from a callback.
OwnThreads == on_thread = [c \in Callers |-> 0]

InitLater ==
  NoSends /\ PingIdle /\ NoTimeout /\ NotDialled /\ NotStarted /\ StreamIdle /\ OwnThreads
InitExt == NoRaise /\ NoDisconnect /\ NoShut /\ RegIdle /\ CodecIdle /\ InitLater

InitShared ==
  /\ pending_requests = << >>
  /\ queue = [c \in Callers |-> <<>>]
  /\ pc = [c \in Callers |-> "idle"]
  /\ req = [c \in Callers |-> None]
  /\ target = [c \in Callers |-> 0]
  /\ result = [c \in Callers |-> None]
  /\ to_peer = [p \in Conns |-> <<>>]
  /\ from_peer = [p \in Conns |-> <<>>]
  /\ peer_open = [p \in Conns |-> FALSE]
  /\ hpc = [p \in Conns |-> "off"]
  /\ hmsg = [p \in Conns |-> None]
  /\ hq = [p \in Conns |-> 0]
  /\ callbacks \in CallbackSets
  /\ running = TRUE
  /\ is_connected = FALSE
  /\ clients = <<>>
  /\ threads = <<>>
  /\ n_th = 0
  /\ aconn = 0
  /\ cpc = [x \in Ctxs |-> "idle"]
  /\ ctarget = [x \in Ctxs |-> 0]
  /\ cwas_in = [x \in Ctxs |-> FALSE]
  /\ cres = [x \in Ctxs |-> FALSE]
  /\ recv_log = <<>>
  /\ conn_log = <<>>
  /\ disc_log = <<>>
  /\ sent_frames = <<>>
  /\ fate = [s \in 1..MaxPeerFrames |-> "none"]
  /\ late = {}
  /\ InitExt

\* Client.__init__, client.py lines 40-70
C_Init ==
  /\ side = "client"
  /\ sock = [p \in Conns |-> IF p = 1 THEN "new" ELSE "none"]
  /\ apc = "off"
  /\ attempts = 0
  /\ InitShared

\* Server.__init__, server.py lines 53-95
S_Init ==
  /\ side = "server"
  /\ sock = [p \in Conns |-> "none"]
  /\ apc = "init"
  /\ InitShared

ClientCalls ==
  \/ \E c \in Callers : \E id \in CallerIds(c) : C_Register(c, id)
  \/ \E c \in Callers : C_Send(c)
  \/ \E c \in Callers : C_Get(c)
  \/ \E c \in Callers : C_Empty(c)
  \/ \E c \in Callers : C_Finally(c)

ClientHandler ==
  \/ C_HandlerRecv
  \/ C_HandlerRecvNone
  \/ C_HandlerPing
  \/ C_HandlerCheck
  \/ C_HandlerLookup
  \/ C_HandlerPut

ClientLife ==
  \/ C_Connect
  \/ C_ConnectRefused

ServerCalls ==
  \/ \E c \in Callers, p \in Conns : \E id \in CallerIds(c) : S_Register(c, id, p)
  \/ \E c \in Callers : S_Send(c)
  \/ \E c \in Callers : S_Get(c)
  \/ \E c \in Callers : S_Empty(c)
  \/ \E c \in Callers : S_Finally(c)

ServerHandler ==
  \/ \E p \in Conns : S_HandlerStart(p)
  \/ \E p \in Conns : S_HandlerRecv(p)
  \/ \E p \in Conns : S_HandlerRecvNone(p)
  \/ \E p \in Conns : S_HandlerPing(p)
  \/ \E p \in Conns : S_HandlerCheck(p)
  \/ \E p \in Conns : S_HandlerPut(p)
  \/ \E x \in Ctxs : S_CloseRemove(x)
  \/ \E x \in Ctxs : S_CloseJoin(x)

ServerAccept ==
  \/ S_Start
  \/ S_AcceptCount
  \/ S_Accept
  \/ S_AcceptTimeout
  \/ S_Append
  \/ S_Spawn
  \/ S_RegisterThread

PeerNext ==
  \/ \E p \in Conns, i \in 1..NumCallers + MaxPeerFrames : PeerEcho(p, i)
  \/ \E p \in Conns, frame \in PeerFrames : PeerSend(p, frame)
  \/ \E p \in Conns : PeerClose(p)

\* ---------------------------------------------------------- specifications
\* Messaging: an endpoint with callers of send_and_wait, its receive loops
\* and its remote ends.  The server is reached by MsgPeers remote clients.
MsgPeers == 1
MsgInit == C_Init \/ (S_Init /\ attempts = MsgPeers)
MsgNext ==
  \/ ClientCalls \/ ClientHandler \/ ClientLife
  \/ ServerCalls \/ ServerHandler \/ ServerAccept
  \/ PeerNext
SpecMsg == MsgInit /\ [][MsgNext]_vars

\* The client alone, facing a remote end that echoes or stays silent, with
\* the progress its threads make: a call that has registered runs on: send returns, get(timeout=...) returns or raises
\* when the timeout ends, and the finally clause runs.
C_CallRuns(c) == C_Send(c) \/ C_Get(c) \/ C_Empty(c) \/ C_Finally(c)
WaitNext ==
  \/ ClientCalls \/ ClientLife
  \/ C_HandlerRecv \/ C_HandlerRecvNone \/ C_HandlerCheck \/ C_HandlerLookup \/ C_HandlerPut
  \/ \E i \in 1..NumCallers : PeerEcho(1, i)
  \/ PeerClose(1)
SpecWait == C_Init /\ [][WaitNext]_vars /\ \A c \in Callers : WF_vars(C_CallRuns(c))

\* Connection lifecycle of the client: connect, the receive loop with the
\* frames and the close of the remote end, and disconnect called by user
\* threads.
ConnNext ==
  \/ ClientLife
  \/ C_HandlerRecv \/ C_HandlerRecvNone \/ C_HandlerPing \/ C_HandlerCheck
  \/ \E frame \in PeerFrames : PeerSend(1, frame)
  \/ PeerClose(1)
  \/ \E x \in Closers : C_Disconnect(x)
SpecConn == C_Init /\ [][ConnNext]_vars

\* Callbacks that raise: an endpoint without callers of send_and_wait, its
\* receive loops, and remote ends that send frames; the server is reached
\* by max_connection remote clients.
ErrInit == C_Init \/ (S_Init /\ attempts = max_connection)
ErrNext ==
  \/ SetRaisingCallbacks
  \/ ClientLife
  \/ C_HandlerRecv \/ C_HandlerRecvNone \/ C_HandlerPing \/ C_HandlerCheck
  \/ ServerAccept
  \/ \E p \in Conns : S_HandlerStart(p)
  \/ \E p \in Conns : S_HandlerRecv(p)
  \/ \E p \in Conns : S_HandlerRecvNone(p)
  \/ \E p \in Conns : S_HandlerPing(p)
  \/ \E p \in Conns : S_HandlerCheck(p)
  \/ \E x \in Ctxs : S_CloseRemove(x)
  \/ \E x \in Ctxs : S_CloseJoin(x)
  \/ \E p \in Conns, frame \in PeerFrames : PeerSend(p, frame)
  \/ \E p \in Conns : PeerClose(p)
SpecErr == ErrInit /\ [][ErrNext]_vars

\* ------------------------------------- send_and_wait called from a callback
\* on_recv and on_connect run on the handler thread of the connection
\* (server.py lines 251-261 and 295-304). A send_and_wait or ping_client
\* called inside one runs on that thread, which goes back to recv only when
\* the call has returned; ping_client_async (lines 360-384) starts a thread
\* for the call and returns.
NotCalling == {"idle", "done_response", "done_timeout", "done_sendfail", "raised"}
InCall(p) == \E c \in Callers : on_thread[c] = p /\ pc[c] \notin NotCalling

\* lines 295-304 with 132-135: nobody waits for the Response, on_recv is
\* set, and on_recv(client, response) calls send_and_wait(request, client)
S_RecvCalls(p, c, request_id) ==
  /\ side = "server"
  /\ hpc[p] = "parsed"
  /\ hmsg[p].type # PING
  /\ hmsg[p].request_id \notin DOMAIN pending_requests
  /\ "on_recv" \in callbacks
  /\ pc[c] = "idle"
  /\ recv_log' = Append(recv_log, [client |-> p, msg |-> hmsg[p]])
  /\ fate' = [fate EXCEPT ![hmsg[p].serial] = "callback"]
  /\ hpc' = [hpc EXCEPT ![p] = "recv"]
  /\ hmsg' = [hmsg EXCEPT ![p] = None]
  /\ queue' = [queue EXCEPT ![c] = <<>>]
  /\ pending_requests' = SetKey(pending_requests, request_id, c)
  /\ req' = [req EXCEPT ![c] = CallerRequest(c, request_id)]
  /\ target' = [target EXCEPT ![c] = p]
  /\ pc' = [pc EXCEPT ![c] = "registered"]
  /\ on_thread' = [on_thread EXCEPT ![c] = p]
  /\ UNCHANGED <<result, netVars, hq, callbacks, clientVars, acceptVars, closeVars,
                 conn_log, disc_log, sent_frames, late, side, raising, dcalls, shutVars,
                 regVars, codecVars, laterVars, start_th, streamVars>>

\* lines 251-261 with 132-135: on_connect(client) calls
\* send_and_wait(request, client)
S_ConnectCalls(p, c, request_id) ==
  /\ side = "server"
  /\ hpc[p] = "start"
  /\ "on_connect" \in callbacks
  /\ pc[c] = "idle"
  /\ conn_log' = Append(conn_log, p)
  /\ hpc' = [hpc EXCEPT ![p] = "recv"]
  /\ queue' = [queue EXCEPT ![c] = <<>>]
  /\ pending_requests' = SetKey(pending_requests, request_id, c)
  /\ req' = [req EXCEPT ![c] = CallerRequest(c, request_id)]
  /\ target' = [target EXCEPT ![c] = p]
  /\ pc' = [pc EXCEPT ![c] = "registered"]
  /\ on_thread' = [on_thread EXCEPT ![c] = p]
  /\ UNCHANGED <<result, netVars, hmsg, hq, callbacks, clientVars, acceptVars, closeVars,
                 recv_log, disc_log, frameVars, side, raising, dcalls, shutVars, regVars,
                 codecVars, laterVars, start_th, streamVars>>

\* The steps of the handler thread of p outside a call it is making.
S_HandlerReads(p) ==
  /\ ~InCall(p)
  /\ \/ S_HandlerStart(p) \/ S_HandlerRecv(p) \/ S_HandlerPing(p)
     \/ S_HandlerCheck(p) \/ S_HandlerPut(p)

\* ------------------------------------------------ the byte stream of a connection
\* A TCP connection carries bytes, not frames: what the remote end writes is
\* appended to the bytes in flight, and one conn.recv hands the handler the
\* first buffer_size of them, or all of them when there are fewer.
buffer_size == 124      \* config.buffer_size, scaled from 1024 to two headers
MaxWrites == 3          \* frames the remote end writes in a behaviour
PadLen == 62            \* bytes of payload ahead of an embedded frame

\* The frames the remote end writes, all compiled by Request.compile: one with
\* no payload, one whose payload makes it one byte longer than buffer_size,
\* and one whose payload ends with the bytes of a compiled frame.
Zeros(n) == [i \in 1..n |-> 0]
SmallFrame == compile(Request(USER, <<>>, IdA), 1)
LongFrame == compile(Request(USER, Zeros(PadLen + 1), IdA), 1)
NestedFrame == compile(Request(USER, Zeros(PadLen) \o SmallFrame, IdA), 1)
StreamFrames == {SmallFrame, LongFrame, NestedFrame}

\* The bytes read so far, and the offset in the stream where frame j starts.
BytesRead == IF rlog = <<>> THEN 0 ELSE rlog[Len(rlog)].at + Len(rlog[Len(rlog)].data)
RECURSIVE FrameStart(_)
FrameStart(j) == IF j = 1 THEN 0 ELSE FrameStart(j - 1) + Len(wlog[j - 1])

\* Sender.send, sender.py line 75: the remote end's sock.sendall(request.compile())
W_Write(frame) ==
  /\ Len(wlog) < MaxWrites
  /\ wire' = wire \o frame
  /\ wlog' = Append(wlog, frame)
  /\ UNCHANGED <<callerVars, netVars, handlerVars, callbacks, clientVars, acceptVars,
                 closeVars, logVars, frameVars, side, raising, dcalls, shutVars, regVars,
                 codecVars, laterVars, start_th, rlog, on_thread>>

\* One iteration of the handler loop, server.py lines 263-309 and client.py
\* lines 186-219: msg = recv(conn, buffer_size), utils/network.py line 24,
\* then Request.parse(msg) in a try; a Response is dispatched, a RequestError
\* is logged, and the loop reads on either way.
H_Recv ==
  /\ wire # <<>>
  /\ LET n == IF Len(wire) < buffer_size THEN Len(wire) ELSE buffer_size
         msg == SubSeq(wire, 1, n)
         response == parse(msg, 1 + ClockStep)
     IN  /\ rlog' = Append(rlog, [data |-> msg, at |-> BytesRead,
                                  dispatched |-> IsResponse(response)])
         /\ wire' = SubSeq(wire, n + 1, Len(wire))
  /\ UNCHANGED <<callerVars, netVars, handlerVars, callbacks, clientVars, acceptVars,
                 closeVars, logVars, frameVars, side, raising, dcalls, shutVars, regVars,
                 codecVars, laterVars, start_th, wlog, on_thread>>

\* The handler of one connection reading what the remote end writes.
StreamInit == C_Init
StreamNext ==
  \/ \E frame \in StreamFrames : W_Write(frame)
  \/ H_Recv
SpecStream == StreamInit /\ [][StreamNext]_vars

\* The codec alone: a request is built, compiled, possibly changed on the
\* way, and parsed.
CodecInit == C_Init
CodecNext ==
  \/ \E t \in DOMAIN registry, content \in Contents(MaxPayload), request_id \in CodecIds :
       K_Request(t, content, request_id)
  \/ \E now \in Clock : K_Compile(now)
  \/ \E i \in 1..MaxPayload, b \in ByteVals : K_Corrupt(i, b)
  \/ \E extra \in Contents(MaxExtra) \ {<<>>} : K_Append(extra)
  \/ \E code \in UnregisteredCodes : K_Retype(code)
  \/ \E n \in TruncatedLengths : K_Truncate(n)
  \/ \E d \in {0, ClockStep} : K_Parse(cts + d)
SpecCodec == CodecInit /\ [][CodecNext]_vars

\* The registry alone: threads that each create one MessageType.
RegInit == C_Init
RegNext ==
  \/ \E r \in Registrants, code \in RegCodes : R_Init(r, code)
  \/ \E r \in Registrants : R_Check(r)
  \/ \E r \in Registrants : R_Store(r)
SpecReg == RegInit /\ [][RegNext]_vars

\* The Sender of an endpoint whose connections come and go: user threads
\* call send.
SendInit == C_Init \/ (S_Init /\ attempts = MsgPeers)
SendNext ==
  \/ ClientLife
  \/ \E x \in Closers : C_Disconnect(x)
  \/ ServerAccept
  \/ \E x \in Closers, p \in Conns : S_CloseClient(x, p)
  \/ \E x \in Ctxs : S_CloseRemove(x)
  \/ \E x \in Ctxs : S_CloseJoin(x)
  \/ \E p \in Conns : PeerClose(p)
  \/ \E data \in SendData, client \in Conns \cup {NoSocket} : Snd_Send(data, client)
SpecSend == SendInit /\ [][SendNext]_vars

\* The Sender of an endpoint whose connections come and go: a user thread
\* calls broadcast.
TargetLists == UNION {[1..k -> Sockets] : k \in 0..MaxTargets}
CastInit == C_Init \/ (S_Init /\ attempts = max_connection)
CastNext ==
  \/ ServerAccept
  \/ \E x \in Closers, p \in Conns : S_CloseClient(x, p)
  \/ \E x \in Ctxs : S_CloseRemove(x)
  \/ \E x \in Ctxs : S_CloseJoin(x)
  \/ \E p \in Conns : PeerClose(p)
  \/ \E data \in SendData, list_of_client \in TargetLists, except_clients \in SUBSET Sockets :
       B_Start(data, list_of_client, except_clients)
  \/ B_Step
  \/ B_Return
SpecCast == CastInit /\ [][CastNext]_vars

\* A ping over an established connection, with time: the probe and its
\* reply each take any number of milliseconds, and the remote end's clock
\* may be off.
PingInit == C_Init \/ (S_Init /\ attempts = 0)
PingNext ==
  \/ Tick
  \/ \E s \in (0 - MaxSkew)..MaxSkew : PeerClockOff(s)
  \/ P_Call(IdA)
  \/ PeerPong
  \/ P_Handler
  \/ P_Return
  \/ P_Timeout
SpecPing == PingInit /\ [][PingNext]_vars

\* Idle connections: an endpoint that nobody closes, its receive loops, and
\* remote ends that send frames now and then.
IdleInit == C_Init \/ (S_Init /\ attempts = max_connection)
IdleNext ==
  \/ SetDefaultTimeout
  \/ ClientLife
  \/ C_HandlerRecv \/ C_HandlerRecvNone \/ C_HandlerPing \/ C_HandlerCheck
  \/ ServerAccept
  \/ \E p \in Conns : S_HandlerStart(p)
  \/ \E p \in Conns : S_HandlerRecv(p)
  \/ \E p \in Conns : S_HandlerRecvNone(p)
  \/ \E p \in Conns : S_HandlerPing(p)
  \/ \E p \in Conns : S_HandlerCheck(p)
  \/ \E x \in Ctxs : S_CloseRemove(x)
  \/ \E x \in Ctxs : S_CloseJoin(x)
  \/ \E p \in Conns, frame \in PeerFrames : PeerSend(p, frame)
  \/ \E p \in Conns : PeerClose(p)
SpecIdle == IdleInit /\ [][IdleNext]_vars

\* A connection that ends: an endpoint with its receive loops, remote ends
\* that send frames and close, and a user thread that closes peers too.
\* Every handler thread keeps running: each of its steps is taken in the end.
S_HandlerRuns(p) ==
  \/ S_HandlerStart(p) \/ S_HandlerRecv(p) \/ S_HandlerRecvNone(p)
  \/ S_HandlerPing(p) \/ S_HandlerCheck(p)
  \/ S_CloseRemove(HandlerCtx(p)) \/ S_CloseJoin(HandlerCtx(p))
C_HandlerRuns == C_HandlerRecv \/ C_HandlerRecvNone \/ C_HandlerPing \/ C_HandlerCheck
\* What every step of a handler thread changes: its position, the position
\* of its close_client call, or the frames it has still to read.
handlerProgress == <<hpc, cpc, from_peer>>
DropInit == C_Init \/ (S_Init /\ attempts = MsgPeers)
DropNext ==
  \/ ClientLife
  \/ C_HandlerRuns
  \/ ServerAccept
  \/ \E p \in Conns : S_HandlerRuns(p)
  \/ \E x \in Closers, p \in Conns : S_CloseClient(x, p)
  \/ \E x \in Closers : S_CloseRemove(x)
  \/ \E x \in Closers : S_CloseJoin(x)
  \/ \E p \in Conns, frame \in PeerFrames : PeerSend(p, frame)
  \/ \E p \in Conns : PeerClose(p)
SpecDrop ==
  /\ DropInit
  /\ [][DropNext]_vars
  /\ WF_handlerProgress(C_HandlerRuns)
  /\ \A p \in Conns : WF_handlerProgress(S_HandlerRuns(p))

\* Messaging of one caller with the progress the threads make: each handler
\* thread and the thread in send_and_wait run on.
C_HandlerDelivers == C_HandlerRuns \/ C_HandlerLookup \/ C_HandlerPut
S_HandlerDelivers(p) == S_HandlerRuns(p) \/ S_HandlerPut(p)
S_CallRuns(c) == S_Send(c) \/ S_Get(c) \/ S_Empty(c) \/ S_Finally(c)
PutNext ==
  \/ \E id \in CallerIds(1) : C_Register(1, id)
  \/ C_CallRuns(1)
  \/ ClientLife
  \/ C_HandlerDelivers
  \/ \E p \in Conns : \E id \in CallerIds(1) : S_Register(1, id, p)
  \/ S_CallRuns(1)
  \/ ServerAccept
  \/ \E p \in Conns : S_HandlerDelivers(p)
  \/ PeerNext
SpecPut ==
  /\ MsgInit
  /\ [][PutNext]_vars
  /\ WF_vars(C_HandlerDelivers)
  /\ \A p \in Conns : WF_vars(S_HandlerDelivers(p))
  /\ WF_vars(C_CallRuns(1))
  /\ WF_vars(S_CallRuns(1))

\* The server with as many remote clients as it admits, which stay
\* connected, and one caller of send_and_wait.
PeersInit == S_Init /\ attempts = max_connection
PeersNext ==
  \/ \E p \in Conns : \E id \in CallerIds(1) : S_Register(1, id, p)
  \/ S_CallRuns(1)
  \/ ServerAccept
  \/ \E p \in Conns : S_HandlerStart(p)
  \/ \E p \in Conns : S_HandlerRecv(p)
  \/ \E p \in Conns : S_HandlerPing(p)
  \/ \E p \in Conns : S_HandlerCheck(p)
  \/ \E p \in Conns : S_HandlerPut(p)
  \/ \E p \in Conns, i \in 1..NumCallers + MaxPeerFrames : PeerEcho(p, i)
  \/ \E p \in Conns, frame \in PeerFrames : PeerSend(p, frame)
SpecPeers == PeersInit /\ [][PeersNext]_vars

\* A server whose callbacks call send_and_wait on the connection they are
\* called for, next to a thread of its own that calls it (ping_client_async).
NestedInit == S_Init /\ attempts = max_connection
NestedNext ==
  \/ ServerAccept
  \/ \E p \in Conns : S_HandlerReads(p)
  \/ \E p \in Conns : S_RecvCalls(p, 1, IdA)
  \/ \E p \in Conns : S_ConnectCalls(p, 1, IdA)
  \/ \E p \in Conns : S_Register(2, IdB, p)
  \/ \E c \in Callers : S_CallRuns(c)
  \/ \E p \in Conns, i \in 1..NumCallers : PeerEcho(p, i)
  \/ \E p \in Conns, frame \in PeerFrames : PeerSend(p, frame)
SpecNested == NestedInit /\ [][NestedNext]_vars

\* Connection lifecycle of the server: the accept loop, the handlers'
\* disconnect cleanup and close_client called by user threads, with one
\* remote client more than the server admits.
LifeInit == S_Init /\ attempts = NumConns
LifeNext ==
  \/ \E p \in Conns : S_HandlerStart(p)
  \/ \E p \in Conns : S_HandlerRecvNone(p)
  \/ \E x \in Ctxs : S_CloseRemove(x)
  \/ \E x \in Ctxs : S_CloseJoin(x)
  \/ ServerAccept
  \/ \E x \in Closers, p \in Conns : S_CloseClient(x, p)
  \/ \E p \in Conns : PeerClose(p)
SpecLife == LifeInit /\ [][LifeNext]_vars

\* Shutdown of the server: the accept loop, the handlers' disconnect
\* cleanup and one call of close_all.
ShutNext ==
  \/ \E p \in Conns : S_HandlerStart(p)
  \/ \E p \in Conns : S_HandlerRecvNone(p)
  \/ \E x \in Ctxs : S_CloseRemove(x)
  \/ \E x \in Ctxs : S_CloseJoin(x)
  \/ ServerAccept
  \/ S_AcceptError
  \/ S_CloseAll
  \/ S_CloseAllClient
  \/ S_CloseAllFinish
  \/ \E p \in Conns : PeerClose(p)
SpecShut == LifeInit /\ [][ShutNext]_vars

\* The end of the accept loop: start() or start(_on_th=True), the accept
\* loop, the handlers' disconnect cleanup, and one call of close_all made
\* once the server was started.  The thread of the accept loop, the
\* handler threads and the thread in close_all run on.
StopInit == S_Init /\ attempts = max_connection
S_AcceptLoopRuns ==
  \/ S_AcceptCount \/ S_Accept \/ S_AcceptTimeout \/ S_AcceptError
  \/ S_Append \/ S_Spawn \/ S_RegisterThread
S_CloseAllRuns ==
  \/ S_CloseAllClient \/ S_CloseRemove(ShutCtx) \/ S_CloseJoin(ShutCtx) \/ S_CloseAllFinish
S_HandlerEnds(p) ==
  \/ S_HandlerStart(p) \/ S_HandlerRecvNone(p)
  \/ S_CloseRemove(HandlerCtx(p)) \/ S_CloseJoin(HandlerCtx(p))
StopNext ==
  \/ S_Start
  \/ S_StartDirect
  \/ S_AcceptLoopRuns
  \/ \E p \in Conns : S_HandlerEnds(p)
  \/ (apc # "init" /\ S_CloseAll)
  \/ S_CloseAllRuns
  \/ \E p \in Conns : PeerClose(p)
SpecStop ==
  /\ StopInit
  /\ [][StopNext]_vars
  /\ WF_vars(S_AcceptLoopRuns)
  /\ WF_vars(S_CloseAllRuns)
  /\ \A p \in Conns : WF_vars(S_HandlerEnds(p))

\* ------------------------------------------------------------------ claims
\* The send_and_wait calls that have begun.
Called == {c \in Callers : pc[c] # "idle"}

\* The ids given to the calls that have begun are pairwise distinct strings.
DistinctIds ==
  \A c, d \in Called : c # d => req[c].request_id # req[d].request_id

\* Every frame the remote ends wrote is the echo of a request.
EchoOnly == \A s \in 1..Len(sent_frames) : sent_frames[s].re[2] # 0

\* The calls that hold a response.
Answered == {c \in Callers : pc[c] \in {"got", "done_response"}}

\* C1: when the calls in flight carry pairwise distinct correlation ids and
\* the remote end echoes each request under the id it received, every call
\* that gets a response gets the response to its own request: the payload it
\* sent, never the payload of another call.
C1_NoCrossDelivery ==
  (DistinctIds /\ EchoOnly) =>
    \A c \in Answered : result[c].content = req[c].content /\ result[c].re = c

\* Another call that may still hold or overwrite the entry of c's id.
SharesId(c) ==
  \E d \in Callers \ {c} :
    pc[d] \in {"registered", "waiting", "got", "empty"}
    /\ req[d].request_id = req[c].request_id

\* C2: once a send_and_wait call has returned, by response, by timeout or by
\* send failure, the pending-request map holds no entry for its correlation
\* id (unless another call still in flight registered the same id).
C2_PendingCleared ==
  \A c \in Callers :
    (Returned(c) /\ ~SharesId(c)) => req[c].request_id \notin DOMAIN pending_requests

\* One call has returned with a response and the other by timeout or by
\* send failure, and the map is empty.
C2_Witness ==
  \E c, d \in Callers :
    /\ pc[c] = "done_response"
    /\ pc[d] \in {"done_timeout", "done_sendfail"}
    /\ pending_requests = << >>

\* No frame the remote ends wrote so far carries the id of call c.
Unanswered(c) ==
  \A s \in 1..Len(sent_frames) :
    ParseId(sent_frames[s].request_id_bytes) # req[c].request_id

C4_LateToCallback ==
  \A s \in late :
    /\ fate[s] \in {"none", "callback"}
    /\ \A c \in Answered : result[c].serial # s

\* C5: when a handler examines a frame that is not a PING and whose id has
\* no entry in the pending-request map, and on_recv is set, that step passes
\* the frame to on_recv, with the peer it came from, and to no waiter.
C5_UnmatchedToCallback ==
  [][\A p \in Conns :
       (/\ hpc[p] = "parsed"
        /\ hpc'[p] # "parsed"
        /\ hmsg[p].type # PING
        /\ hmsg[p].request_id \notin DOMAIN pending_requests
        /\ "on_recv" \in callbacks)
       => /\ recv_log' = Append(recv_log, [client |-> p, msg |-> hmsg[p]])
          /\ queue' = queue]_vars

\* on_recv has been given a user message that no call waited for.
C5_Witness ==
  \E i \in 1..Len(recv_log) :
    /\ recv_log[i].msg.type = USER
    /\ fate[recv_log[i].msg.serial] = "callback"

\* The serials of the responses call c holds: in its Queue or returned.
Holds(c) ==
  {queue[c][i].serial : i \in 1..Len(queue[c])}
  \cup (IF c \in Answered THEN {result[c].serial} ELSE {})

\* C6: delivery is single-slot and one-to-one: the Queue of a call never
\* holds more than one response, a call is handed at most one response, and
\* no response is handed to two calls.
C6_SingleDelivery ==
  /\ \A c \in Callers : Len(queue[c]) <= 1
  /\ \A c \in Callers : c \in Answered => result[c].serial \notin
                          {queue[c][i].serial : i \in 1..Len(queue[c])}
  /\ \A c, d \in Callers : c # d => Holds(c) \cap Holds(d) = {}

\* Two calls have each returned a response, each the echo of its own request.
C6_Witness ==
  \E c, d \in Callers :
    /\ c # d
    /\ pc[c] = "done_response" /\ result[c].re = c
    /\ pc[d] = "done_response" /\ result[d].re = d

\* C7: the step in which a handler dispatches a PING writes, on the
\* connection the PING came from, a PONG with the PING's id bytes and an
\* empty payload (when that connection is up), hands nothing to on_recv,
\* leaves every waiting call and the pending-request map alone, and goes on
\* with the loop.
C7_PingAnswered ==
  [][\A p \in Conns :
       (hpc[p] = "parsed" /\ hpc'[p] # "parsed" /\ hmsg[p].type = PING) =>
         /\ (sock[p] = "open" /\ peer_open[p]) =>
              /\ Len(to_peer'[p]) = Len(to_peer[p]) + 1
              /\ LET pong == to_peer'[p][Len(to_peer'[p])]
                 IN  /\ pong.code = PONG
                     /\ pong.content = <<>>
                     /\ pong.request_id_bytes =
                          sent_frames[hmsg[p].serial].request_id_bytes
         /\ \A q \in Conns \ {p} : to_peer'[q] = to_peer[q]
         /\ recv_log' = recv_log
         /\ queue' = queue
         /\ pending_requests' = pending_requests
         /\ running => hpc'[p] = "recv"]_vars

\* A PING whose id is the id of a call still waiting has been answered with
\* a PONG, and the call still waits with an empty Queue.
C7_Witness ==
  \E s \in 1..Len(sent_frames) :
    /\ fate[s] = "pong"
    /\ \E p \in Conns : \E i \in 1..Len(to_peer[p]) :
         /\ to_peer[p][i].code = PONG
         /\ to_peer[p][i].request_id_bytes = sent_frames[s].request_id_bytes
    /\ \E c \in Callers :
         /\ pc[c] = "waiting"
         /\ queue[c] = <<>>
         /\ req[c].request_id = ParseId(sent_frames[s].request_id_bytes)

C9_BoundedPeers ==
  /\ Len(clients) <= max_connection
  /\ apc \in {"accept", "append"} => Len(clients) < max_connection
  /\ n_th > max_connection => \E p \in 1..max_connection : ~InList(clients, p)

\* The connection after the max_connection-th has been accepted, and the
\* list is full again.
C9_Witness ==
  /\ n_th = max_connection + 1
  /\ Len(clients) = max_connection
  /\ InList(clients, max_connection + 1)

\* C10: every step of a close_client call made for a peer that was not in
\* the peer list leaves the list and the sockets of the other peers as they
\* are, and the call returns False straight from the membership test.
C10_CloseAbsentPeer ==
  [][\A x \in Ctxs :
       (cpc'[x] # cpc[x] /\ ~cwas_in'[x]) =>
         /\ clients' = clients
         /\ \A q \in Conns \ {ctarget'[x]} : sock'[q] = sock[q]
         /\ cpc[x] = "remove" => (cpc'[x] = "done" /\ cres'[x] = FALSE)]_vars

\* close_client has returned False for a peer that was not in the list,
\* while another peer is in the list with its connection open.
C10_Witness ==
  \E x \in Ctxs :
    /\ cpc[x] = "done"
    /\ ~cwas_in[x]
    /\ cres[x] = FALSE
    /\ \E q \in Conns \ {ctarget[x]} : InList(clients, q) /\ sock[q] = "open"

\* C11: when close_all has returned, the peer list is empty and every
\* connection the accept loop has accepted is closed.
C11_AllClosed ==
  spc = "done" =>
    /\ clients = <<>>
    /\ \A p \in 1..n_th : sock[p] = "closed"

C13_BadFrameDiscarded ==
  [][\A p \in Conns :
       (/\ hpc[p] = "recv"
        /\ from_peer[p] # <<>>
        /\ ~Head(from_peer[p]).ok
        /\ from_peer'[p] # from_peer[p]
        /\ Len(from_peer'[p]) < Len(from_peer[p]))
       => /\ from_peer'[p] = Tail(from_peer[p])
          /\ running => hpc'[p] = "recv"
          /\ sock' = sock
          /\ clients' = clients
          /\ recv_log' = recv_log
          /\ disc_log' = disc_log
          /\ queue' = queue
          /\ pending_requests' = pending_requests]_vars

\* A frame parse rejected was discarded, and the frame sent after it on the
\* same connection, still open, was dispatched: to on_recv, to a waiting
\* call, or answered as a PING.
C13_Witness ==
  /\ Len(sent_frames) = 2
  /\ sent_frames[1].re[1] = sent_frames[2].re[1]
  /\ fate[1] = "unparsable"
  /\ fate[2] \in {"callback", "queued", "pong"}
  /\ sock[sent_frames[1].re[1]] = "open"
  /\ side = "server" => InList(clients, sent_frames[1].re[1])

\* C14: the step in which a handler calls a callback that raises, on_recv
\* for a frame or on_connect at the start of a server handler, leaves the
\* handler in its loop: it goes on to read; the sockets, the peer list, the
\* unread frames and every other handler stay as they are.
C14_CallbackErrorCaught ==
  [][\A p \in Conns :
       (\/ /\ hpc[p] = "parsed" /\ hpc'[p] # "parsed"
           /\ hmsg[p].type # PING
           /\ hmsg[p].request_id \notin DOMAIN pending_requests
           /\ CallbackFate("on_recv") = "raised"
        \/ /\ hpc[p] = "start" /\ hpc'[p] # "start"
           /\ CallbackFate("on_connect") = "raised")
       => /\ running => hpc'[p] = "recv"
          /\ \A q \in Conns \ {p} : hpc'[q] = hpc[q]
          /\ sock' = sock
          /\ from_peer' = from_peer
          /\ clients' = clients]_vars

\* on_recv raised for a frame, and the frame sent after it on the same
\* connection was dispatched too; on the server on_connect had raised for
\* that peer before.
C14_Witness ==
  /\ Len(sent_frames) = 2
  /\ sent_frames[1].re[1] = sent_frames[2].re[1]
  /\ fate[1] = "raised"
  /\ fate[2] \in {"raised", "pong"}
  /\ side = "server" => (raising # {} /\ recv_log # <<>> /\ conn_log # <<>>)

\* C15: parse(compile()) of an unchanged frame gives a Response with the
\* type code and the payload of the request and, when the request's id is
\* 32 hex digits with or without hyphens, with the id as it was supplied.
C15_RoundTrip ==
  (tamper = "none" /\ cout # None)
    => /\ IsResponse(cout)
       /\ cout.type.code = creq.type
       /\ cout.content = creq.content
       /\ LET clean_id == StripHyphens(creq.request_id)
          IN  (Len(clean_id) = 32 /\ \A i \in 1..32 : IsHexChar(clean_id[i]))
                => cout.request_id = creq.request_id

\* C16: a frame with one byte of its payload changed parses to the
\* hash-mismatch RequestError and to no Response.
C16_CorruptPayloadRejected ==
  (tamper = "payload" /\ cout # None)
    => cout = RequestError("Hash mismatch - corrupted data detected")

\* a two-byte payload had one byte changed and parse has answered
C16_Witness ==
  /\ tamper = "payload"
  /\ Len(creq.content) = MaxPayload
  /\ cout # None
  /\ IsError(cout)

\* C17: a frame with bytes appended parses to the size-mismatch
\* RequestError.
C17_AppendedBytesSizeMismatch ==
  (tamper = "extra" /\ cout # None) => cout = RequestError("Size mismatch")

\* C18: a frame whose type code was replaced by an unregistered code parses
\* to the unknown-type RequestError.
C18_UnknownTypeRejected ==
  (tamper = "type" /\ cout # None) => cout = RequestError("Unknown message type code")

\* the code of a frame with a payload was replaced by 65534 and parse has
\* answered with an error
C18_Witness ==
  /\ tamper = "type"
  /\ creq.content # <<>>
  /\ FromBigEndian(SubSeq(cdata, 1, 2)) = 65534
  /\ cout # None
  /\ IsError(cout)

\* C19: the creation of a MessageType whose code is outside 0..65535, or was
\* registered when the creation began, ends with MessageTypeError, and the
\* step that ends it leaves the registry as it was.
C19_BadCodeRejected ==
  [][\A r \in Registrants :
       (/\ rpc[r] # "done" /\ rpc'[r] = "done"
        /\ \/ ~(0 <= rtype'[r].code /\ rtype'[r].code <= MaxCode)
           \/ rtype'[r].registered_at_call)
       => /\ rres'[r] = "MessageTypeError"
          /\ registry' = registry]_vars

\* one creation with the code of PING and one with a code above 65535 have
\* failed, and the registry is the one of the start
C19_Witness ==
  /\ \E r \in Registrants :
       rpc[r] = "done" /\ rtype[r].code = PING /\ rres[r] = "MessageTypeError"
  /\ \E r \in Registrants :
       rpc[r] = "done" /\ rtype[r].code = MaxCode + 1 /\ rres[r] = "MessageTypeError"
  /\ registry = SystemTypes

\* C20: of the creations of MessageTypes with one code at most one succeeds.
C20_OneWinner ==
  \A r1, r2 \in Registrants :
    (/\ r1 # r2
     /\ rpc[r1] = "done" /\ rpc[r2] = "done"
     /\ rres[r1] = "registered" /\ rres[r2] = "registered")
    => rtype[r1].code # rtype[r2].code

\* C21: every call of Sender.send returned True or False, never an
\* exception; it returned True exactly when the request was compiled and
\* sendall handed over all its bytes, and False when there was no target,
\* when compile raised and when sendall raised.
C21_SendNeverRaises ==
  \A k \in 1..Len(slog) :
    /\ slog[k].ret \in {"True", "False"}
    /\ slog[k].ret = "True" <=> slog[k].stage = "sent"

\* one send was written, and one failed with an error other than a reset or
\* a broken pipe
C21_Witness ==
  /\ Len(slog) = MaxSends
  /\ \E k \in 1..Len(slog) : slog[k].stage = "sent" /\ slog[k].ret = "True"
  /\ \E k \in 1..Len(slog) : slog[k].stage \in {"TypeError", "OSError"} /\ slog[k].ret = "False"

\* C22: when broadcast has returned on a server, it made one send for each
\* entry of the list that is not excluded and none to an excluded socket, and
\* it returned True exactly when every one of these sends was written; with
\* nothing to send to it returned True.
C22_BroadcastAll ==
  (bpc = "done" /\ side = "server")
    => LET kept == {i \in 1..Len(blist) : blist[i] \notin bexcept}
       IN  /\ Len(blog) = Cardinality(kept)
           /\ \A k \in 1..Len(blog) : blog[k].target \notin bexcept
           /\ bret = "True" <=> \A k \in 1..Len(blog) : blog[k].stage = "sent"
           /\ kept = {} => bret = "True"

\* broadcast to two sockets, one excluded: the send to the other was
\* written and broadcast returned True
C22_Witness ==
  /\ bpc = "done"
  /\ side = "server"
  /\ Len(blist) = MaxTargets
  /\ blist[1] \in bexcept
  /\ blist[2] \notin bexcept
  /\ Len(blog) = 1
  /\ blog[1].stage = "sent"
  /\ bret = "True"

\* C23: the latency a ping returns is at least 0 and less than the timeout.
C23_LatencyInRange ==
  ppc = "done" => (0 <= pres /\ pres < PingTimeout)

\* C24: the latency a ping returns is the time, on the caller's clock, from
\* the sending of the probe to the receipt of its reply.
C24_LatencyIsRoundTrip ==
  ppc = "done" => pres = pt1 - pt0

\* C25: once connect has returned False, is_connected is False and the
\* client has no handler thread.
C25_RefusedConnect ==
  connect_result = "False" => (~is_connected /\ hpc[1] = "off")

\* connect has returned False and the client has called disconnect since
C25_Witness ==
  /\ side = "client"
  /\ connect_result = "False"
  /\ dcalls > 0
  /\ peer_open[1] = FALSE

\* C26: while the remote end of a connection is open and nobody on this
\* side closes it, the connection stays open, its handler stays in its loop
\* and, on the server, the peer stays in the peer list: a read that times
\* out changes none of this.
C26_TimeoutKeepsOpen ==
  \A p \in Conns :
    (peer_open[p] /\ hpc[p] # "off")
      => /\ sock[p] = "open"
         /\ hpc[p] \notin {"closing", "exit"}
         /\ (side = "server" /\ p \in Known) => InList(clients, p)

\* C27: a peer that has been in the peer list and is in it no longer has
\* its connection closed.
C27_RemovedIsClosed ==
  \A p \in Known : ~InList(clients, p) => sock[p] = "closed"

\* a close_client call has removed a peer whose remote end is still open,
\* and another peer is in the list
C27_Witness ==
  \E x \in Ctxs :
    /\ cpc[x] = "done"
    /\ cres[x] = TRUE
    /\ ~InList(clients, ctarget[x])
    /\ sock[ctarget[x]] = "closed"
    /\ peer_open[ctarget[x]]
    /\ clients # <<>>

\* C29: a close_client call that was the only one made for its peer has
\* returned True exactly when the peer was in the peer list when the call
\* began; this holds for the call a handler thread makes for its own peer.
C29_CloseResult ==
  \A x \in Ctxs :
    (/\ cpc[x] = "done"
     /\ \A y \in Ctxs \ {x} : ctarget[y] # ctarget[x])
    => (cres[x] = TRUE <=> cwas_in[x])

\* C28: when a handler is at its read and the read gives None, the handler
\* in the end has left its loop with the connection closed; on the server
\* the peer is then out of the peer list and on_disconnect, if set, was
\* called for it, on the client is_connected is False.
C28_DisconnectCleanup ==
  \A p \in Conns :
    (hpc[p] = "recv" /\ RecvNone(p))
      ~> (/\ hpc[p] = "exit"
          /\ sock[p] = "closed"
          /\ side = "server" =>
               (/\ ~InList(clients, p)
                /\ "on_disconnect" \in callbacks => InList(disc_log, p))
          /\ side = "client" => ~is_connected)

\* the remote end closed, and the handler has left its loop after it read
\* what the remote end had sent; the connection is closed
C28_Witness ==
  /\ Len(sent_frames) > 0
  /\ \E p \in Conns :
       /\ ~peer_open[p]
       /\ hpc[p] = "exit"
       /\ sock[p] = "closed"
       /\ fate[1] # "none"
       /\ side = "server" => (~InList(clients, p) /\ InList(disc_log, p)
                               /\ cres[HandlerCtx(p)] = FALSE)

\* The fates of a frame that was handed to a waiter's queue or to on_recv.
Dispatched == {"queued", "callback", "raised"}

\* C30: in the step that dispatches a frame, to a waiter's queue or to
\* on_recv, the handler has already disposed of every frame that arrived
\* before it on the same connection: frames of one connection are
\* dispatched in the order in which they arrived.
C30_ArrivalOrder ==
  [][\A s \in 1..Len(sent_frames) :
       (fate[s] = "none" /\ fate'[s] \in Dispatched) =>
         \A r \in 1..(s - 1) :
           sent_frames[r].re[1] = sent_frames[s].re[1] => fate[r] # "none"]_vars

\* two frames arrived on one connection and both were dispatched
C30_Witness ==
  \E r, s \in 1..Len(sent_frames) :
    /\ r < s
    /\ sent_frames[r].re[1] = sent_frames[s].re[1]
    /\ fate[r] \in Dispatched
    /\ fate[s] \in Dispatched

\* How often x occurs in the list l.
Occurrences(l, x) == Cardinality({i \in 1..Len(l) : l[i] = x})

\* C31: with on_connect set, on_connect is called at most once for a peer,
\* exactly once as soon as the peer's handler thread has passed the head of
\* handle_client, and on_recv is called for a peer only after on_connect.
C31_ConnectOnce ==
  (side = "server" /\ "on_connect" \in callbacks) =>
    \A p \in Conns :
      /\ Occurrences(conn_log, p) <= 1
      /\ hpc[p] \notin {"off", "start"} => Occurrences(conn_log, p) = 1
      /\ hpc[p] \in {"off", "start"} => Occurrences(conn_log, p) = 0
      /\ (\E i \in 1..Len(recv_log) : recv_log[i].client = p) => InList(conn_log, p)

\* on_connect was called for a peer, and on_recv was called for it since
C31_Witness ==
  /\ side = "server"
  /\ \E p \in Conns :
       /\ Occurrences(conn_log, p) = 1
       /\ \E i \in 1..Len(recv_log) : recv_log[i].client = p

\* C32: once close_all has been called on a started server, the accept
\* loop in the end has stopped.
C32_AcceptLoopStops ==
  (spc # "idle" /\ apc # "init") ~> (apc = "exit")

\* The serials of the responses that can still reach a caller or have
\* reached one: those in the Queue of a call that has yet to take from it,
\* and those a call has taken.
Consumable ==
  UNION {{queue[c][i].serial : i \in 1..Len(queue[c])} :
           c \in {d \in Callers : pc[d] \in {"registered", "waiting"}}}
  \cup {result[c].serial : c \in Answered}

\* C33: no user frame a handler has decoded is lost: none is dropped by the
\* error path of the handler, and one the handler has put into a Queue is
\* returned by a call or can still be taken by the call that waits on it.
C33_NoResponseLost ==
  \A s \in 1..Len(sent_frames) :
    sent_frames[s].code = USER =>
      /\ fate[s] # "keyerror"
      /\ fate[s] = "queued" => s \in Consumable

\* C34: a handler that has decoded a frame in the end is back at its read
\* or has left its loop.
C34_HandlerReadsOn ==
  \A p \in Conns : (hpc[p] = "parsed") ~> (hpc[p] \in {"recv", "exit"})

\* The id of call c as the remote end's echo carries it back: compiled to
\* 16 bytes and rendered by parse.
Echoed == [id \in UNION {CallerIds(c) : c \in Callers} |-> ParseId(CompileId(id))]
EchoedId(c) == Echoed[req[c].request_id]

\* Call c has begun with an id that is not in the form parse renders.
NonCanonical(c) == pc[c] # "idle" /\ req[c].request_id # EchoedId(c)

\* The frames of the remote ends that echo the request of call c.
EchoesOf(c) == {s \in 1..Len(sent_frames) : sent_frames[s].re[2] = c}

C36_AnswerFromTarget ==
  side = "server" =>
    \A c \in Answered : sent_frames[result[c].serial].re[1] = target[c]

\* C37: on_disconnect is called at most once for a peer.
C37_DisconnectOnce ==
  \A p \in Conns : Occurrences(disc_log, p) <= 1

\* Read i returned exactly the bytes of one written frame: it starts where
\* the frame starts and has the frame's length.
WholeAndAlone(i) ==
  \E j \in 1..Len(wlog) : FrameStart(j) = rlog[i].at /\ Len(wlog[j]) = Len(rlog[i].data)

\* C38: a read is dispatched only when it returned one written frame whole
\* and alone; a read holding two frames, or a piece of a frame, fails
\* decoding and nothing is dispatched for it.
C38_OneReadOneFrame ==
  \A i \in 1..Len(rlog) : rlog[i].dispatched => WholeAndAlone(i)

\* A read that holds a whole written frame followed by more bytes is never
\* dispatched.
TogetherDropped ==
  \A i \in 1..Len(rlog) :
    (\E j \in 1..Len(wlog) : FrameStart(j) = rlog[i].at /\ Len(wlog[j]) < Len(rlog[i].data))
      => ~rlog[i].dispatched

\* C39: a send_and_wait issued from on_recv or on_connect on the handler
\* thread of the connection it targets is never resolved: it never holds a
\* response.
C39_NeverResolved ==
  \A c \in Callers : on_thread[c] # 0 => pc[c] \notin {"got", "done_response"}

\* The entries of the target list that broadcast has gone through, without
\* the excluded ones, in list order.
Due ==
  SelectSeq(SubSeq(blist, 1, IF bpc = "done" THEN Len(blist) ELSE bi - 1),
            LAMBDA client : client \notin bexcept)

\* C40: on a server, the sends broadcast has made are, in order, the
\* non-excluded entries of the target list it has gone through, one send per
\* occurrence, whether or not an earlier send failed; when it returns it has
\* gone through the whole list.
C40_EveryTargetInOrder ==
  (side = "server" /\ bpc \in {"loop", "done"})
    => [k \in 1..Len(blog) |-> blog[k].target] = Due

\* broadcast to two sockets has returned: the first send failed and the
\* second was written
C40_Witness ==
  /\ bpc = "done"
  /\ side = "server"
  /\ Len(blist) = MaxTargets
  /\ Len(blog) = MaxTargets
  /\ blog[1].ret = "False"
  /\ blog[2].stage = "sent"

====
